---- MODULE Spec2Model ----
(***************************************************************************)
(* A model of myshift-go: the PagerDuty API client (pagination, user       *)
(* lookup, override creation), DeduplicateOnCalls, the output formatters,   *)
(* configuration loading, the next, upcoming, plan and override commands   *)
(* and the interactive shell.                                              *)
(*                                                                         *)
(* Strings are TLA+ strings, so fmt.Sprintf is string concatenation.       *)
(* A time.Time is a record [s, n, z]: s whole seconds and n the            *)
(* sub-second part of the instant, z the zone offset of the value.         *)
(***************************************************************************)
EXTENDS Integers, Sequences, FiniteSets, TLC

VARIABLES
    onCalls,        \* DeduplicateOnCalls: the argument
    uniqueShifts,   \* DeduplicateOnCalls: the returned slice
    dedupPc,        \* "start" before the call, "done" after it
    call,           \* client: the method called and its argument
    srvOnCalls,     \* server: number of on-call entries matching the query (entries 1..n)
    srvPageMax,     \* server: most entries it puts in one page
    srvUsers,       \* server: the users of the account
    srvOverrides,   \* server: the overrides created on the schedule
    cliPc,          \* client: "idle", "paging" (inside GetOnCalls' loop), "done"
    offset,         \* GetOnCalls: offset of the next page request
    allOnCalls,     \* GetOnCalls: the entries collected so far
    requests,       \* client: the HTTP requests sent, in order
    failures,       \* client: number of HTTP exchanges that failed
    ret,            \* client: what the method returned, [err, val]
    cmd,            \* command: its name, the variant of its code, its arguments
    cfg,            \* command: the configuration, [schedule_id, my_user]
    now,            \* command: what time.Now() returns
    cmdPc,          \* command: "start" before Execute, "done" after it
    apiCalls,       \* command: the calls made on the PagerDutyClient, with their results
    cmdErr,         \* command: the error Execute returned ("nil": none)
    out,            \* command: the lines printed
    nextShift,      \* next command: the shift it settled on
    fcall,          \* formatters: the function called and its arguments
    fret,           \* formatters: what it returned or wrote
    fpc,            \* formatters: "start" before the call, "done" after it
    files,          \* config: what is at each location of the search list
    confCall,       \* config: the function called (Load or ValidateConfig)
    confReads,      \* config: the locations whose file was read, in order
    confRet,        \* config: what the function returned
    confPc,         \* config: "start" before the call, "done" after it
    repl,           \* shell: the variant of its code and its schedule argument
    remaining,      \* shell: number of scans before the input is at its end
    lastScan,       \* shell: what the last scanner.Scan() delivered
    replOut,        \* shell: what the shell printed for the last line
    replRet,        \* shell: what Execute returned ("none": it has not returned)
    replPc          \* shell: "prompt", "calling" (inside a command), "ended"

dedupVars == <<onCalls, uniqueShifts, dedupPc>>
clientVars == <<call, srvOnCalls, srvPageMax, srvUsers, srvOverrides, cliPc,
                offset, allOnCalls, requests, failures, ret>>
cmdVars == <<cmd, cfg, now, cmdPc, apiCalls, cmdErr, out, nextShift>>
fmtVars == <<fcall, fret, fpc>>
confVars == <<files, confCall, confReads, confRet, confPc>>
replVars == <<repl, remaining, lastScan, replOut, replRet, replPc>>
otherVars == <<fmtVars, confVars, replVars>>
vars == <<dedupVars, clientVars, cmdVars, otherVars>>

(***************************************************************************)
(* Bounds of the model.                                                    *)
(***************************************************************************)
MaxShifts == 3      \* longest list of shifts handed to an operation
MaxTotal == 205     \* most on-call entries the server holds for one query
SmallPage == 40     \* page size of a server that caps pages below the requested limit

(***************************************************************************)
(* time.Time                                                               *)
(***************************************************************************)
Time(s, n, z) == [s |-> s, n |-> n, z |-> z]

\* t.Before(u): compares the instants, not the zones
Before(t, u) == t.s < u.s \/ (t.s = u.s /\ t.n < u.n)

\* t.After(u)
After(t, u) == Before(u, t)

\* t.Equal(u): the same instant, whatever the zones
EqualTime(t, u) == t.s = u.s /\ t.n = u.n

\* t.Format(time.RFC3339): wall-clock seconds in the value's zone followed by
\* the zone offset; the layout has no fractional seconds, so n is dropped.
FormatRFC3339(t) == "T" \o ToString(t.s + t.z) \o "+" \o ToString(t.z)

(***************************************************************************)
(* types.OnCall                                                            *)
(***************************************************************************)
OnCall(uid, name, sid, start, end) ==
    [user |-> [id |-> uid, name |-> name], schedule |-> [id |-> sid],
     start |-> start, end |-> end]

\* the four values DeduplicateOnCalls is documented to compare
SameShift(a, b) ==
    /\ a.user.id = b.user.id
    /\ a.schedule.id = b.schedule.id
    /\ EqualTime(a.start, b.start)
    /\ EqualTime(a.end, b.end)

(***************************************************************************)
(* DeduplicateOnCalls                                                      *)
(***************************************************************************)
\* fmt.Sprintf("%s-%s-%s-%s", user ID, schedule ID, start, end)
ShiftKey(shift) ==
    shift.user.id \o "-" \o shift.schedule.id \o "-"
        \o FormatRFC3339(shift.start) \o "-" \o FormatRFC3339(shift.end)

\* the loop over onCalls[1..i]: seenShifts is the set of keys with value true
RECURSIVE DedupLoop(_, _)
DedupLoop(in, i) ==
    IF i = 0 THEN [seen |-> {}, unique |-> <<>>]
    ELSE LET prev == DedupLoop(in, i - 1)
             key  == ShiftKey(in[i])
         IN  IF key \notin prev.seen
             THEN [seen |-> prev.seen \cup {key}, unique |-> Append(prev.unique, in[i])]
             ELSE prev

DeduplicateOnCalls(in) ==
    IF Len(in) = 0 THEN in ELSE DedupLoop(in, Len(in)).unique

(***************************************************************************)
(* The inputs of DeduplicateOnCalls                                        *)
(***************************************************************************)
UserIDs == {"a", "a-b"}
ScheduleIDs == {"c", "b-c"}
UserNames == {"n1"}
T1 == Time(1, 0, 0)
T1n == Time(1, 1, 0)    \* the same second as T1, a later instant
T1z == Time(1, 0, 1)    \* the same instant as T1, another zone
T2 == Time(2, 0, 0)
T3 == Time(3, 0, 0)

\* the instants at which the shifts of the override command start and end:
\* the window asked for is second 60 to second 600, and with overflow=true
\* the API returns a shift that overlaps the window with its own start and end
OverrideTimes == {Time(60, 0, 0), Time(120, 0, 0), Time(900, 0, 0)}

\* the instants at which the shifts of the next command start and end; the
\* command runs at second 300 or a moment after it
NextTimes == {Time(100, 0, 0), Time(300, 0, 0), Time(400, 0, 0), Time(500, 0, 0)}
StartTimes == {T1, T1n, T1z}
EndTimes == {T2}

DedupShifts ==
    {OnCall(u, nm, sc, st, en) :
        u \in UserIDs, nm \in UserNames, sc \in ScheduleIDs,
        st \in StartTimes, en \in EndTimes}

SeqsUpTo(S, n) == UNION {[1..k -> S] : k \in 0..n}

\* the call of DeduplicateOnCalls has not been made
DedupIdle ==
    /\ onCalls = <<>>
    /\ uniqueShifts = <<>>
    /\ dedupPc = "idle"

NoShift == OnCall("", "", "", Time(0, 0, 0), Time(0, 0, 0))

\* no formatter function has been called
FmtIdle ==
    /\ fcall = [name |-> "none"]
    /\ fret = [err |-> "nil"]
    /\ fpc = "off"

\* no configuration has been looked for
ConfIdle ==
    /\ files = <<>>
    /\ confCall = "none"
    /\ confReads = <<>>
    /\ confRet = [err |-> "nil"]
    /\ confPc = "off"

\* the shell has not been started
ReplIdle ==
    /\ repl = [variant |-> "none"]
    /\ remaining = 0
    /\ lastScan = [kind |-> "none"]
    /\ replOut = <<>>
    /\ replRet = "none"
    /\ replPc = "off"

OtherIdle == FmtIdle /\ ConfIdle /\ ReplIdle

\* no command has been started
CmdIdle ==
    /\ cmd = [name |-> "none"]
    /\ cfg = [schedule_id |-> "", my_user |-> <<>>]
    /\ now = Time(0, 0, 0)
    /\ cmdPc = "off"
    /\ apiCalls = <<>>
    /\ cmdErr = "nil"
    /\ out = <<>>
    /\ nextShift = NoShift

(***************************************************************************)
(* Strings whose letters matter (email addresses) are sequences of         *)
(* one-letter strings.                                                     *)
(***************************************************************************)
\* unicode.ToLower on the letters the model uses
ToLowerChar(c) ==
    CASE c = "A" -> "a"
      [] c = "N" -> "n"
      [] c = "J" -> "j"
      [] c = "T" -> "t"
      [] c = "E" -> "e"
      [] c = "X" -> "x"
      [] c = "I" -> "i"
      [] c = "C" -> "c"
      [] c = "L" -> "l"
      [] c = "S" -> "s"
      [] OTHER -> c

ToLower(str) == [i \in 1..Len(str) |-> ToLowerChar(str[i])]

\* strings.EqualFold(a, b)
EqualFold(a, b) == ToLower(a) = ToLower(b)

\* strings.Contains(str, sub)
Contains(str, sub) ==
    \E i \in 0..(Len(str) - Len(sub)) : SubSeq(str, i + 1, i + Len(sub)) = sub

(***************************************************************************)
(* The HTTP exchange of makeRequest                                        *)
(***************************************************************************)
Limit == 100

\* what can become of one request: a 2xx answer, no answer (httpClient.Do
\* fails), an answer with another status, a 2xx answer whose body is no JSON
HttpOutcomes == {"ok", "transport_error", "api_error", "bad_json"}

\* makeRequest's error for an outcome ("nil": it returns the response)
MakeRequestErr(outcome) ==
    CASE outcome = "transport_error" -> "error making request"
      [] outcome = "api_error" -> "API error"
      [] OTHER -> "nil"

\* the exchange failed: a transport error or a non-2xx response
HttpFailed(outcome) == outcome \in {"transport_error", "api_error"}

Min(a, b) == IF a < b THEN a ELSE b

(***************************************************************************)
(* The server's answers                                                    *)
(***************************************************************************)
\* GET /oncalls?offset=o&limit=l: the entries after the first o, at most l of
\* them and at most srvPageMax, and whether entries remain after them
ServerPageLen(o, l) ==
    IF o >= srvOnCalls THEN 0 ELSE Min(Min(l, srvPageMax), srvOnCalls - o)

ServerPage(o, l) == [i \in 1..ServerPageLen(o, l) |-> o + i]

ServerMore(o, l) == o + ServerPageLen(o, l) < srvOnCalls

\* GET /users?query=q: the users whose email contains q, letter case ignored
ServerMatches(q) == {u \in srvUsers : Contains(ToLower(u.email), ToLower(q))}

\* ... of which the answer holds at most l, in an order the server chooses
ServerUsersPages(q, l) ==
    {page \in SeqsUpTo(ServerMatches(q), l) :
        /\ Len(page) = Min(l, Cardinality(ServerMatches(q)))
        /\ \A i, j \in 1..Len(page) : i # j => page[i] # page[j]}

(***************************************************************************)
(* Client.GetOnCalls                                                       *)
(***************************************************************************)
\* a loop without an exit test
ShouldStopNever(more, n) == FALSE

\* a loop that also stops after a full page
ShouldStopAfterFullPage(more, n) == ~more \/ n <= Limit

\* the loop's exit test: !onCallsResp.More || len(onCallsResp.OnCalls) < limit
ShouldStop(more, n) == ~more \/ n < Limit

\* one pass of the loop: a page request and what the answer leads to
GetOnCallsPage ==
    /\ call.name = "GetOnCalls"
    /\ cliPc \in {"idle", "paging"}
    /\ requests' = Append(requests, [method |-> "GET", path |-> "/oncalls",
                                     offset |-> offset, limit |-> Limit])
    /\ \E outcome \in HttpOutcomes :
        IF outcome # "ok"
        THEN /\ ret' = [err |-> IF outcome = "bad_json"
                                THEN "error decoding response"
                                ELSE MakeRequestErr(outcome),
                        val |-> <<>>]
             /\ failures' = failures + (IF HttpFailed(outcome) THEN 1 ELSE 0)
             /\ cliPc' = "done"
             /\ UNCHANGED <<offset, allOnCalls>>
        ELSE LET page == ServerPage(offset, Limit)
                 all  == allOnCalls \o page
             IN  /\ allOnCalls' = all
                 /\ failures' = failures
                 /\ IF ShouldStop(ServerMore(offset, Limit), Len(page))
                    THEN /\ ret' = [err |-> "nil", val |-> all]
                         /\ cliPc' = "done"
                         /\ offset' = offset
                    ELSE /\ offset' = offset + Limit
                         /\ cliPc' = "paging"
                         /\ ret' = ret
    /\ UNCHANGED <<call, srvOnCalls, srvPageMax, srvUsers, srvOverrides, dedupVars, cmdVars, otherVars>>

(***************************************************************************)
(* Client.FindUserByEmail                                                  *)
(***************************************************************************)
User(id, name, email) == [id |-> id, name |-> name, email |-> email]

NoUser == User("", "", <<>>)

\* the loop over usersResp.Users: the first user whose email matches
FirstMatch(users, email) ==
    IF \E i \in 1..Len(users) : EqualFold(users[i].email, email)
    THEN LET i == CHOOSE k \in 1..Len(users) :
                    /\ EqualFold(users[k].email, email)
                    /\ \A j \in 1..(k - 1) : ~EqualFold(users[j].email, email)
         IN  [err |-> "nil", val |-> users[i]]
    ELSE [err |-> "user not found", val |-> NoUser]

FindUserByEmail ==
    /\ call.name = "FindUserByEmail"
    /\ cliPc = "idle"
    /\ requests' = Append(requests, [method |-> "GET", path |-> "/users",
                                     query |-> call.arg, limit |-> 1])
    /\ \E outcome \in HttpOutcomes :
        /\ failures' = failures + (IF HttpFailed(outcome) THEN 1 ELSE 0)
        /\ IF outcome # "ok"
           THEN ret' = [err |-> IF outcome = "bad_json"
                                THEN "error decoding response"
                                ELSE MakeRequestErr(outcome),
                        val |-> NoUser]
           ELSE \E page \in ServerUsersPages(call.arg, 1) :
                    ret' = FirstMatch(page, call.arg)
    /\ cliPc' = "done"
    /\ UNCHANGED <<call, srvOnCalls, srvPageMax, srvUsers, srvOverrides,
                   offset, allOnCalls, dedupVars, cmdVars, otherVars>>

(***************************************************************************)
(* Client.GetUser                                                          *)
(***************************************************************************)
\* GET /users/{id}: 200 with the user, 404 when there is none; any request
\* may also fail for a reason of its own
GetUser ==
    /\ call.name = "GetUser"
    /\ cliPc = "idle"
    /\ requests' = Append(requests, [method |-> "GET", path |-> "/users/" \o call.arg])
    /\ \E outcome \in HttpOutcomes :
        /\ outcome = "ok" => \E u \in srvUsers : u.id = call.arg
        /\ failures' = failures + (IF HttpFailed(outcome) THEN 1 ELSE 0)
        /\ IF outcome # "ok"
           THEN ret' = [err |-> IF outcome = "bad_json"
                                THEN "error decoding response"
                                ELSE MakeRequestErr(outcome),
                        val |-> NoUser]
           ELSE \E u \in srvUsers :
                    /\ u.id = call.arg
                    /\ ret' = [err |-> "nil", val |-> u]
    /\ cliPc' = "done"
    /\ UNCHANGED <<call, srvOnCalls, srvPageMax, srvUsers, srvOverrides,
                   offset, allOnCalls, dedupVars, cmdVars, otherVars>>

(***************************************************************************)
(* Client.CreateOverrides                                                  *)
(***************************************************************************)
Override(start, end, uid) ==
    [start |-> start, end |-> end, user |-> [id |-> uid, type |-> "user_reference"],
     time_zone |-> "UTC"]

\* One POST carries the whole list.  The server takes the list or refuses it
\* (api_error).  A transport error is either a request that never arrived or
\* an answer that never came back (the client gives up after 30 seconds); in
\* the second case the server has taken the list.  The body of the answer is
\* not read, so a body that is no JSON changes nothing.
CreateOverrides ==
    /\ call.name = "CreateOverrides"
    /\ cliPc = "idle"
    /\ requests' = Append(requests, [method |-> "POST",
                                     path |-> "/schedules/" \o call.schedule \o "/overrides",
                                     body |-> call.arg])
    /\ \E outcome \in HttpOutcomes, arrived \in BOOLEAN :
        /\ outcome \in {"ok", "bad_json"} => arrived
        /\ outcome = "api_error" => ~arrived
        /\ failures' = failures + (IF HttpFailed(outcome) THEN 1 ELSE 0)
        /\ srvOverrides' = IF arrived THEN srvOverrides \o call.arg ELSE srvOverrides
        /\ ret' = [err |-> MakeRequestErr(outcome), val |-> <<>>]
    /\ cliPc' = "done"
    /\ UNCHANGED <<call, srvOnCalls, srvPageMax, srvUsers, offset, allOnCalls,
                   dedupVars, cmdVars, otherVars>>

(***************************************************************************)
(* One call of a client method against one server                          *)
(***************************************************************************)
Emails == {<<"a", "n">>, <<"A", "N">>, <<"j", "a", "n">>, <<"b">>}

AllUsers ==
    {User("u1", "n1", <<"a", "n">>), User("u2", "n2", <<"j", "a", "n">>),
     User("u3", "n3", <<"b">>)}

ClientOverrides == {Override(T1, T2, "u1"), Override(T2, T3, "u1")}

\* no client method has been called
ClientIdle ==
    /\ call = [name |-> "none"]
    /\ srvOnCalls = 0
    /\ srvPageMax = Limit
    /\ srvUsers = {}
    /\ srvOverrides = <<>>
    /\ cliPc = "off"
    /\ offset = 0
    /\ allOnCalls = <<>>
    /\ requests = <<>>
    /\ failures = 0
    /\ ret = [err |-> "nil", val |-> <<>>]

ClientInit ==
    /\ cliPc = "idle"
    /\ offset = 0
    /\ allOnCalls = <<>>
    /\ requests = <<>>
    /\ failures = 0
    /\ ret = [err |-> "nil", val |-> <<>>]
    /\ srvOverrides = <<>>
    /\ \/ /\ call = [name |-> "GetOnCalls"]
          /\ srvOnCalls \in 0..MaxTotal
          /\ srvPageMax \in {Limit, SmallPage}
          /\ srvUsers = {}
       \/ /\ call \in [name : {"FindUserByEmail"}, arg : Emails]
          /\ srvUsers \in SUBSET AllUsers
          /\ srvOnCalls = 0
          /\ srvPageMax = Limit
       \/ /\ call \in [name : {"GetUser"}, arg : {"u1", "u2", "u3"}]
          /\ srvUsers \in SUBSET AllUsers
          /\ srvOnCalls = 0
          /\ srvPageMax = Limit
       \/ /\ call \in [name : {"CreateOverrides"}, schedule : {"c"},
                       arg : SeqsUpTo(ClientOverrides, MaxShifts)]
          /\ srvUsers = {}
          /\ srvOnCalls = 0
          /\ srvPageMax = Limit
    /\ DedupIdle
    /\ CmdIdle
    /\ OtherIdle

ClientNext == GetOnCallsPage \/ FindUserByEmail \/ GetUser \/ CreateOverrides

SpecClient == ClientInit /\ [][ClientNext]_vars

\* the client's loop goes on while it can: each request gets its answer
SpecClientFair == SpecClient /\ WF_vars(ClientNext)

(***************************************************************************)
(* The commands: what they share                                           *)
(***************************************************************************)
\* t.Format("2006-01-02 15:04 MST"): the wall-clock minute and the zone
FormatMinute(t) == "D" \o ToString((t.s + t.z) \div 60) \o "Z" \o ToString(t.z)

\* the minutes that the date-and-time strings of the model name
CmdMinutes == {1, 2, 10}

\* time.Parse("2006-01-02 15:04", str): "M<k>" is the string naming minute k;
\* the result is in UTC; any other string is an error
ParseMinute(str) ==
    IF \E m \in CmdMinutes : str = "M" \o ToString(m)
    THEN [err |-> "nil",
          val |-> Time(60 * (CHOOSE m \in CmdMinutes : str = "M" \o ToString(m)), 0, 0)]
    ELSE [err |-> "parse error", val |-> Time(0, 0, 0)]

\* ParseTimeRange(startTime, endTime)
ParseTimeRange(startTime, endTime) ==
    IF ParseMinute(startTime).err # "nil"
    THEN [err |-> "invalid start time", start |-> Time(0, 0, 0), end |-> Time(0, 0, 0)]
    ELSE IF ParseMinute(endTime).err # "nil"
    THEN [err |-> "invalid end time", start |-> Time(0, 0, 0), end |-> Time(0, 0, 0)]
    ELSE [err |-> "nil", start |-> ParseMinute(startTime).val,
          end |-> ParseMinute(endTime).val]

\* t.AddDate(0, 0, days)
AddDays(t, days) == Time(t.s + days * 86400, t.n, t.z)

\* the configured schedule, whatever it is
GetScheduleIDUnchecked == [err |-> "nil", val |-> cfg.schedule_id]

\* BaseCommand.GetScheduleID
GetScheduleID ==
    IF cfg.schedule_id = ""
    THEN [err |-> "schedule_id must be configured", val |-> ""]
    ELSE [err |-> "nil", val |-> cfg.schedule_id]

\* what a PagerDutyClient may answer to FindUserByEmail(email): a user with
\* that email (letter case ignored), or an error
FindUserResults(email) ==
    {[err |-> "nil", val |-> u] : u \in {x \in AllUsers : EqualFold(x.email, email)}}
        \cup {[err |-> "user not found", val |-> NoUser]}

\* the shifts of one user on one schedule with start and end among times;
\* the API's timestamps are RFC 3339 without fractional seconds
ShiftsOf(uid, sid, times) ==
    {OnCall(uid, "n", sid, p[1], p[2]) :
        p \in {q \in times \X times : Before(q[1], q[2])}}

\* what a PagerDutyClient may answer to GetOnCalls: a list of such shifts, in
\* any order and with repetitions, or an error
GetOnCallsResults(uid, sid, times) ==
    {[err |-> "nil", val |-> l] : l \in SeqsUpTo(ShiftsOf(uid, sid, times), MaxShifts)}
        \cup {[err |-> "API error", val |-> <<>>]}

\* url.Values of a shift query (BuildTimeRangeParams and the two Adds)
OnCallParams(uid, sid, start, end) ==
    [since |-> FormatRFC3339(start), until |-> FormatRFC3339(end),
     user_ids |-> <<uid>>, schedule_ids |-> <<sid>>, overflow |-> "true"]

\* the command returns err having made these calls and printed these lines
Finish(calls, err, lines, shift) ==
    /\ apiCalls' = calls
    /\ cmdErr' = err
    /\ out' = lines
    /\ nextShift' = shift
    /\ cmdPc' = "done"
    /\ UNCHANGED <<cmd, cfg, now, dedupVars, clientVars, otherVars>>

(***************************************************************************)
(* The override command                                                    *)
(***************************************************************************)
\* the lines printed after the overrides were created
OverrideReport(overrides, name) ==
    <<[text |-> "Successfully created", count |-> Len(overrides), name |-> name]>>
        \o [i \in 1..Len(overrides) |->
                [text |-> "Override", i |-> i,
                 start |-> FormatMinute(overrides[i].start),
                 end |-> FormatMinute(overrides[i].end)]]

\* the steps without the test for an empty list of shifts
OverrideStepsNoShiftTest(scheduleID, userEmail, targetEmail, start, end, viaBase) ==
    \E r1 \in FindUserResults(userEmail), r2 \in FindUserResults(targetEmail) :
      \E r3 \in GetOnCallsResults(r2.val.id, scheduleID, OverrideTimes) :
        LET c1 == [m |-> "FindUserByEmail", email |-> userEmail, res |-> r1]
            c2 == [m |-> "FindUserByEmail", email |-> targetEmail, res |-> r2]
            c3 == [m |-> "GetOnCalls",
                   params |-> OnCallParams(r2.val.id, scheduleID, start, end), res |-> r3]
            shifts == IF viaBase THEN DeduplicateOnCalls(r3.val) ELSE r3.val
            overrides == [i \in 1..Len(shifts) |->
                              Override(shifts[i].start, shifts[i].end, r1.val.id)]
            c4 == [m |-> "CreateOverrides", schedule |-> scheduleID,
                   overrides |-> overrides, res |-> [err |-> "nil"]]
        IN  IF r1.err # "nil" THEN Finish(<<c1>>, "error finding user", <<>>, NoShift)
            ELSE IF r2.err # "nil"
            THEN Finish(<<c1, c2>>, "error finding target user", <<>>, NoShift)
            ELSE IF r3.err # "nil"
            THEN Finish(<<c1, c2, c3>>, "error fetching target shifts", <<>>, NoShift)
            ELSE Finish(<<c1, c2, c3, c4>>, "nil",
                        OverrideReport(overrides, r1.val.name), NoShift)

\* from the first user lookup to the end of Execute; viaBase: the shifts are
\* fetched with BaseCommand.GetOnCallsForUser, which deduplicates them
OverrideSteps(scheduleID, userEmail, targetEmail, start, end, viaBase) ==
    \E r1 \in FindUserResults(userEmail) :
      LET c1 == [m |-> "FindUserByEmail", email |-> userEmail, res |-> r1]
      IN
      IF r1.err # "nil" THEN Finish(<<c1>>, "error finding user", <<>>, NoShift)
      ELSE
      \E r2 \in FindUserResults(targetEmail) :
        LET c2 == [m |-> "FindUserByEmail", email |-> targetEmail, res |-> r2]
        IN
        IF r2.err # "nil"
        THEN Finish(<<c1, c2>>, "error finding target user", <<>>, NoShift)
        ELSE
        \E r3 \in GetOnCallsResults(r2.val.id, scheduleID, OverrideTimes) :
          LET c3 == [m |-> "GetOnCalls",
                     params |-> OnCallParams(r2.val.id, scheduleID, start, end),
                     res |-> r3]
              shifts == IF viaBase THEN DeduplicateOnCalls(r3.val) ELSE r3.val
              overrides == [i \in 1..Len(shifts) |->
                                Override(shifts[i].start, shifts[i].end, r1.val.id)]
          IN
          IF r3.err # "nil"
          THEN Finish(<<c1, c2, c3>>, "error fetching target shifts", <<>>, NoShift)
          ELSE IF Len(shifts) = 0
          THEN Finish(<<c1, c2, c3>>, "no shifts found for target user", <<>>, NoShift)
          ELSE
          \E r4 \in {"nil", "API error"} :
            LET c4 == [m |-> "CreateOverrides", schedule |-> scheduleID,
                       overrides |-> overrides, res |-> [err |-> r4]]
            IN
            IF r4 # "nil"
            THEN Finish(<<c1, c2, c3, c4>>, "error creating overrides", <<>>, NoShift)
            ELSE Finish(<<c1, c2, c3, c4>>, "nil",
                        OverrideReport(overrides, r1.val.name), NoShift)

\* the two checks with the target's first
CheckEmailsTargetFirst(userEmail, targetEmail) ==
    IF targetEmail = <<>> THEN "target user email is required"
    ELSE IF userEmail = <<>> THEN "user email is required"
    ELSE "nil"

\* the two checks that open Execute(scheduleID, userEmail, targetEmail, start, end)
CheckEmails(userEmail, targetEmail) ==
    IF userEmail = <<>> THEN "user email is required"
    ELSE IF targetEmail = <<>> THEN "target user email is required"
    ELSE "nil"

\* OverrideCommand.Execute(scheduleID, userEmail, targetEmail, start, end)
OverrideExecute ==
    /\ cmd.name = "override"
    /\ cmd.variant = "execute"
    /\ cmdPc = "start"
    /\ IF CheckEmails(cmd.user, cmd.target) # "nil"
       THEN Finish(<<>>, CheckEmails(cmd.user, cmd.target), <<>>, NoShift)
       ELSE OverrideSteps(cmd.schedule, cmd.user, cmd.target, cmd.start, cmd.end, FALSE)

\* ParseOverrideFlags(args): args.parse is what fs.Parse makes of the
\* arguments ("bad": an error, "help": flag.ErrHelp, "ok": the four values)
ParseOverrideFlags(args) ==
    IF args.parse = "bad" THEN [err |-> "flag error", help |-> FALSE]
    ELSE IF args.parse = "help" THEN [err |-> "nil", help |-> TRUE]
    ELSE IF args.user = <<>> \/ args.target = <<>> \/ args.start = "" \/ args.end = ""
    THEN [err |-> "--user, --target, --start, and --end are all required", help |-> FALSE]
    ELSE [err |-> "nil", help |-> FALSE]

\* OverrideCommand.Execute(args), the command built on BaseCommand
OverrideExecuteArgs ==
    /\ cmd.name = "override"
    /\ cmd.variant = "base"
    /\ cmdPc = "start"
    /\ LET flags == ParseOverrideFlags(cmd)
           range == ParseTimeRange(cmd.start, cmd.end)
       IN  IF flags.err # "nil" THEN Finish(<<>>, flags.err, <<>>, NoShift)
           ELSE IF flags.help THEN Finish(<<>>, "nil", <<>>, NoShift)
           ELSE IF GetScheduleID.err # "nil"
           THEN Finish(<<>>, GetScheduleID.err, <<>>, NoShift)
           ELSE IF range.err # "nil" THEN Finish(<<>>, range.err, <<>>, NoShift)
           ELSE OverrideSteps(GetScheduleID.val, cmd.user, cmd.target,
                              range.start, range.end, TRUE)

UserEmails == {<<>>, <<"a", "n">>}
TargetEmails == {<<>>, <<"b">>, <<"x">>}

OverrideInit ==
    /\ cmdPc = "start"
    /\ apiCalls = <<>>
    /\ cmdErr = "nil"
    /\ out = <<>>
    /\ nextShift = NoShift
    /\ now = Time(0, 0, 0)
    /\ \/ /\ cmd \in [name : {"override"}, variant : {"execute"}, schedule : {"c"},
                      user : UserEmails, target : TargetEmails,
                      start : {Time(60, 0, 0)}, end : {Time(600, 0, 0)}]
          /\ cfg = [schedule_id |-> "c", my_user |-> <<>>]
       \/ /\ cmd \in [name : {"override"}, variant : {"base"},
                      parse : {"ok", "help", "bad"},
                      user : UserEmails, target : TargetEmails,
                      start : {"", "bad", "M1"}, end : {"", "M10"}]
          /\ cfg \in [schedule_id : {"", "c"}, my_user : {<<>>}]
    /\ DedupIdle
    /\ ClientIdle
    /\ OtherIdle

OverrideNext == OverrideExecute \/ OverrideExecuteArgs

SpecOverride == OverrideInit /\ [][OverrideNext]_vars

(***************************************************************************)
(* The next command                                                        *)
(***************************************************************************)
\* the loop with the comparison turned round: the shift that starts last
RECURSIVE LatestShift(_, _)
LatestShift(shifts, i) ==
    IF i = 1 THEN shifts[1]
    ELSE LET best == LatestShift(shifts, i - 1)
         IN  IF After(shifts[i].start, best.start) THEN shifts[i] ELSE best

\* nextShift := onCalls[0]; for each shift: if it starts before nextShift,
\* it becomes nextShift (the state after shifts[1..i])
RECURSIVE EarliestShift(_, _)
EarliestShift(shifts, i) ==
    IF i = 1 THEN shifts[1]
    ELSE LET best == EarliestShift(shifts, i - 1)
         IN  IF Before(shifts[i].start, best.start) THEN shifts[i] ELSE best

\* the lines printed for the shift settled on
NextReport(shift, t) ==
    IF Before(shift.start, t) /\ After(shift.end, t)
    THEN <<[text |-> "Currently on call"],
           [text |-> "Shift ends", end |-> FormatMinute(shift.end)]>>
    ELSE IF After(shift.start, t)
    THEN <<[text |-> "Next shift:"],
           [text |-> "Starts", start |-> FormatMinute(shift.start)],
           [text |-> "Ends", end |-> FormatMinute(shift.end)]>>
    ELSE <<[text |-> "No upcoming shifts found"]>>

\* from the shift query to the end of Execute; found: the calls made so far
\* and the user; viaBase: the query goes through GetOnCallsForUser
NextSteps(calls, user, scheduleID, days, viaBase) ==
    \E r \in GetOnCallsResults(user.id, scheduleID, NextTimes) :
      LET c == [m |-> "GetOnCalls",
                params |-> OnCallParams(user.id, scheduleID, now, AddDays(now, days)),
                res |-> r]
          shifts == IF viaBase THEN DeduplicateOnCalls(r.val) ELSE r.val
      IN  IF r.err # "nil"
          THEN Finish(Append(calls, c), "error fetching shifts", <<>>, NoShift)
          ELSE IF Len(shifts) = 0
          THEN Finish(Append(calls, c), "nil",
                      <<[text |-> "No upcoming shifts found"]>>, NoShift)
          ELSE Finish(Append(calls, c), "nil",
                      NextReport(EarliestShift(shifts, Len(shifts)), now),
                      EarliestShift(shifts, Len(shifts)))

\* the body of NextCommand.Execute(scheduleID, userEmail, days)
NextFrom(scheduleID, userEmail, days) ==
    IF userEmail = <<>> THEN Finish(<<>>, "user email is required", <<>>, NoShift)
    ELSE \E r1 \in FindUserResults(userEmail) :
           LET c1 == [m |-> "FindUserByEmail", email |-> userEmail, res |-> r1]
           IN  IF r1.err # "nil"
               THEN Finish(<<c1>>, "error finding user", <<>>, NoShift)
               ELSE NextSteps(<<c1>>, r1.val, scheduleID, days, FALSE)

\* NextCommand.Execute(scheduleID, userEmail, days)
NextExecute ==
    /\ cmd.name = "next"
    /\ cmd.variant = "execute"
    /\ cmdPc = "start"
    /\ NextFrom(cmd.schedule, cmd.user, cmd.days)

\* handleNextCommand(args) of main.go: cmd.parse is what fs.Parse makes of
\* the arguments (the flag set exits on an error and after printing help),
\* cmd.load what config.Load returns
HandleNextCommand ==
    /\ cmd.name = "next"
    /\ cmd.variant = "main"
    /\ cmdPc = "start"
    /\ LET finalUserEmail == IF cmd.user = <<>> THEN cfg.my_user ELSE cmd.user
       IN  IF cmd.parse = "bad" THEN Finish(<<>>, "exit 2: flag error", <<>>, NoShift)
           ELSE IF cmd.parse = "help" THEN Finish(<<>>, "nil", <<>>, NoShift)
           ELSE IF cmd.load # "nil"
           THEN Finish(<<>>, "exit 1: Error loading configuration", <<>>, NoShift)
           ELSE IF finalUserEmail = <<>>
           THEN Finish(<<>>, "exit 1: --user is required (or set my_user in configuration)",
                       <<>>, NoShift)
           ELSE IF cfg.schedule_id = ""
           THEN Finish(<<>>, "exit 1: schedule_id must be configured", <<>>, NoShift)
           ELSE NextFrom(cfg.schedule_id, finalUserEmail, cmd.days)

\* NextCommand.Execute(args), the command built on BaseCommand: parser.Parse,
\* GetScheduleID, ResolveUser, GetOnCallsForUser
NextExecuteArgs ==
    /\ cmd.name = "next"
    /\ cmd.variant = "base"
    /\ cmdPc = "start"
    /\ LET email == IF cmd.user = <<>> THEN cfg.my_user ELSE cmd.user
       IN  IF cmd.parse = "bad" THEN Finish(<<>>, "flag error", <<>>, NoShift)
           ELSE IF cmd.parse = "help" THEN Finish(<<>>, "nil", <<>>, NoShift)
           ELSE IF GetScheduleID.err # "nil"
           THEN Finish(<<>>, GetScheduleID.err, <<>>, NoShift)
           ELSE IF email = <<>>
           THEN Finish(<<>>, "user email is required", <<>>, NoShift)
           ELSE \E r1 \in FindUserResults(email) :
                  LET c1 == [m |-> "FindUserByEmail", email |-> email, res |-> r1]
                  IN  IF r1.err # "nil"
                      THEN Finish(<<c1>>, r1.err, <<>>, NoShift)
                      ELSE NextSteps(<<c1>>, r1.val, GetScheduleID.val, cmd.days, TRUE)

DefaultDays == 90

NextInit ==
    /\ cmdPc = "start"
    /\ apiCalls = <<>>
    /\ cmdErr = "nil"
    /\ out = <<>>
    /\ nextShift = NoShift
    /\ now \in {Time(300, 0, 0), Time(300, 1, 0)}
    /\ \/ /\ cmd \in [name : {"next"}, variant : {"execute"}, schedule : {"c"},
                      user : UserEmails, days : {DefaultDays}]
          /\ cfg = [schedule_id |-> "c", my_user |-> <<>>]
       \/ /\ cmd \in [name : {"next"}, variant : {"base"},
                      parse : {"ok", "help", "bad"},
                      user : UserEmails, days : {DefaultDays}]
          /\ cfg \in [schedule_id : {"", "c"}, my_user : {<<>>, <<"b">>}]
    /\ DedupIdle
    /\ ClientIdle
    /\ OtherIdle

NextCmdNext == NextExecute \/ NextExecuteArgs

SpecNext == NextInit /\ [][NextCmdNext]_vars

(***************************************************************************)
(* What the upcoming and plan commands write                               *)
(***************************************************************************)
\* t.Format("2006-01-02"): the day of the wall clock
FormatDate(t) == "d" \o ToString((t.s + t.z) \div 86400)

\* int(end.Sub(start).Hours() / 24): whole days, rounded towards zero
DaysBetween(start, end) ==
    IF end.s >= start.s THEN (end.s - start.s) \div 86400
    ELSE 0 - ((start.s - end.s) \div 86400)

\* userMap[id] of a map whose values are names
NameOf(userMap, id) == IF id \in DOMAIN userMap THEN userMap[id] ELSE ""

\* TextFormatter.Format(writer, shifts, userMap, start, end): the lines written
TextFormat(shifts, userMap, start, end) ==
    IF Len(shifts) = 0
    THEN <<[text |-> "No shifts found", from |-> FormatDate(start), to |-> FormatDate(end)]>>
    ELSE <<[text |-> "Shifts for the next days", days |-> DaysBetween(start, end)]>>
            \o [i \in 1..Len(shifts) |->
                   [text |-> "shift", start |-> FormatMinute(shifts[i].start),
                    end |-> FormatMinute(shifts[i].end),
                    name |-> NameOf(userMap, shifts[i].user.id)]]

(***************************************************************************)
(* The output formatters.  A text whose characters matter is a sequence of *)
(* atoms: single characters, "CR" and "LF" for carriage return and line    *)
(* feed, and longer strings that stand for runs of ordinary characters.    *)
(***************************************************************************)
MaxText == 3        \* longest text handed to escapeICalText
MaxWrites == 6      \* latest write at which the writer may fail

\* GetFormatter that compares the name as it was given
GetFormatterExact(format) ==
    IF format \in {<<"t", "e", "x", "t">>, <<"t", "x", "t">>}
    THEN [err |-> "nil", formatter |-> "text"]
    ELSE IF format \in {<<"i", "c", "a", "l">>, <<"i", "c", "s">>}
    THEN [err |-> "nil", formatter |-> "ical"]
    ELSE [err |-> "unsupported format", formatter |-> "nil"]

\* GetFormatter(format): the switch on strings.ToLower(format)
GetFormatter(format) ==
    LET lower == ToLower(format)
    IN  IF lower \in {<<"t", "e", "x", "t">>, <<"t", "x", "t">>}
        THEN [err |-> "nil", formatter |-> "text"]
        ELSE IF lower \in {<<"i", "c", "a", "l">>, <<"i", "c", "s">>}
        THEN [err |-> "nil", formatter |-> "ical"]
        ELSE [err |-> "unsupported format", formatter |-> "nil"]

\* strings.ReplaceAll(text, old, new) for a one-character old
RECURSIVE ReplaceAll(_, _, _)
ReplaceAll(text, old, new) ==
    IF text = <<>> THEN <<>>
    ELSE (IF Head(text) = old THEN new ELSE <<Head(text)>>)
            \o ReplaceAll(Tail(text), old, new)

\* a text written as it is
NoEscape(text) == text

\* the five replacements with the backslash's last
EscapeBackslashLast(text) ==
    LET t1 == ReplaceAll(text, ",", <<"\\", ",">>)
        t2 == ReplaceAll(t1, ";", <<"\\", ";">>)
        t3 == ReplaceAll(t2, "LF", <<"\\", "n">>)
        t4 == ReplaceAll(t3, "CR", <<"\\", "r">>)
    IN  ReplaceAll(t4, "\\", <<"\\", "\\">>)

\* ICalFormatter.escapeICalText(text): the five replacements in their order
escapeICalText(text) ==
    LET t1 == ReplaceAll(text, "\\", <<"\\", "\\">>)
        t2 == ReplaceAll(t1, ",", <<"\\", ",">>)
        t3 == ReplaceAll(t2, ";", <<"\\", ";">>)
        t4 == ReplaceAll(t3, "LF", <<"\\", "n">>)
    IN  ReplaceAll(t4, "CR", <<"\\", "r">>)

\* t.UTC().Format("20060102T150405Z"): the second of the instant
FormatICalTime(t) == ToString(t.s) \o "Z"

\* userMap[id]: the zero value for a key that is not in the map
MapGet(userMap, id) == IF id \in DOMAIN userMap THEN userMap[id] ELSE <<>>

CRLF == <<"CR", "LF">>

\* the characters of shift.User.ID, a string of the API's JSON: the ID named
\* "uBreak" holds line breaks around the text BEGIN:VEVENT, every other ID is
\* one run of letters and digits
IDText(id) ==
    IF id = "uBreak" THEN <<"x", "CR", "LF", "BEGIN:VEVENT", "CR", "LF", "y">>
    ELSE <<id>>

\* the writes of the loop body for shifts[i] (the loop counts from 0)
ICalEvent(i, shift, userMap, stamp) ==
    LET userName == MapGet(userMap, shift.user.id)
        uid == <<"oncall-" \o ToString(i - 1) \o "-">> \o IDText(shift.user.id)
                   \o <<"@myshift-go">>
    IN  << <<"BEGIN:VEVENT">> \o CRLF,
           <<"UID:">> \o uid \o CRLF,
           <<"DTSTART:" \o FormatICalTime(shift.start)>> \o CRLF,
           <<"DTEND:" \o FormatICalTime(shift.end)>> \o CRLF,
           <<"SUMMARY:On-Call: ">> \o escapeICalText(userName) \o CRLF,
           <<"DESCRIPTION:On-call shift for ">> \o escapeICalText(userName)
               \o <<"\\", "n", "Schedule: ">> \o escapeICalText(shift.schedule.name) \o CRLF,
           <<"CATEGORIES:ON-CALL">> \o CRLF,
           <<"STATUS:CONFIRMED">> \o CRLF,
           <<"TRANSP:OPAQUE">> \o CRLF,
           <<"DTSTAMP:" \o FormatICalTime(stamp)>> \o CRLF,
           <<"END:VEVENT">> \o CRLF >>

RECURSIVE ICalEvents(_, _, _, _)
ICalEvents(shifts, n, userMap, stamp) ==
    IF n = 0 THEN <<>>
    ELSE ICalEvents(shifts, n - 1, userMap, stamp) \o ICalEvent(n, shifts[n], userMap, stamp)

\* every write that ICalFormatter.Format makes when none fails
ICalWrites(shifts, userMap, stamp) ==
    << <<"BEGIN:VCALENDAR">> \o CRLF,
       <<"VERSION:2.0">> \o CRLF,
       <<"PRODID:-//myshift-go//ON-CALL SCHEDULE//EN">> \o CRLF,
       <<"CALSCALE:GREGORIAN">> \o CRLF >>
        \o ICalEvents(shifts, Len(shifts), userMap, stamp)
        \o << <<"END:VCALENDAR">> \o CRLF >>

RECURSIVE Concat(_)
Concat(chunks) == IF chunks = <<>> THEN <<>> ELSE Head(chunks) \o Concat(Tail(chunks))

\* a run of writes on a writer whose write number failAt fails (0: none
\* fails): what reached the writer, and the error returned
WriteAll(writes, failAt) ==
    IF failAt = 0 \/ failAt > Len(writes)
    THEN [err |-> "nil", written |-> Concat(writes)]
    ELSE [err |-> "write error", written |-> Concat(SubSeq(writes, 1, failAt - 1))]

\* ICalFormatter.Format(writer, shifts, userMap, start, end)
ICalFormat(shifts, userMap, stamp, failAt) ==
    WriteAll(ICalWrites(shifts, userMap, stamp), failAt)

(***************************************************************************)
(* One call of a formatter function                                        *)
(***************************************************************************)
FormatNames ==
    {<<"t", "e", "x", "t">>, <<"T", "E", "X", "T">>, <<"T", "e", "x", "t">>,
     <<"t", "x", "t">>, <<"T", "X", "T">>,
     <<"i", "c", "a", "l">>, <<"I", "C", "A", "L">>, <<"i", "C", "a", "l">>,
     <<"i", "c", "s">>, <<"I", "C", "S">>,
     <<>>, <<"j", "s", "o", "n">>, <<"t", "e", "x">>, <<"i", "c", "a", "l", "s">>,
     <<" ", "t", "e", "x", "t">>, <<"c", "s", "v">>}

TextAtoms == {"\\", ",", ";", "LF", "CR", "n", "a"}

\* names of users and schedules, some with characters that need escaping
UserTexts == {<<"a">>, <<"CR", "LF", "BEGIN:VEVENT">>, <<",", ";", "\\">>}
ScheduleTexts == {<<"s">>, <<"LF", "END:VEVENT", "CR", "LF">>}

FmtShift(uid, sname, start, end) ==
    [user |-> [id |-> uid, name |-> "n"], schedule |-> [id |-> "c", name |-> sname],
     start |-> start, end |-> end]

FmtShifts == {FmtShift(u, sn, T1, T2) : u \in {"u1", "u2", "uBreak"}, sn \in ScheduleTexts}

\* the maps from user ID to name: u1 has a name, u2 may have none
UserMaps ==
    {[u \in {"u1"} |-> t] : t \in UserTexts}
        \cup {[u \in {"u1", "u2"} |-> IF u = "u1" THEN t ELSE <<"b">>] : t \in UserTexts}

FmtInit ==
    /\ fpc = "start"
    /\ fret = [err |-> "nil"]
    /\ \/ fcall \in [name : {"GetFormatter"}, format : FormatNames]
       \/ fcall \in [name : {"escapeICalText"}, text : SeqsUpTo(TextAtoms, MaxText)]
       \/ fcall \in [name : {"ICalFormatter.Format"},
                     shifts : SeqsUpTo(FmtShifts, MaxShifts),
                     userMap : UserMaps, stamp : {T3}, failAt : 0..MaxWrites]
    /\ DedupIdle
    /\ ClientIdle
    /\ CmdIdle
    /\ ConfIdle
    /\ ReplIdle

FmtDone(result) ==
    /\ fret' = result
    /\ fpc' = "done"
    /\ UNCHANGED <<fcall, dedupVars, clientVars, cmdVars, confVars, replVars>>

GetFormatterCall ==
    /\ fpc = "start"
    /\ fcall.name = "GetFormatter"
    /\ FmtDone(GetFormatter(fcall.format))

EscapeICalTextCall ==
    /\ fpc = "start"
    /\ fcall.name = "escapeICalText"
    /\ FmtDone([err |-> "nil", text |-> escapeICalText(fcall.text)])

ICalFormatCall ==
    /\ fpc = "start"
    /\ fcall.name = "ICalFormatter.Format"
    /\ FmtDone(ICalFormat(fcall.shifts, fcall.userMap, fcall.stamp, fcall.failAt))

FmtNext == GetFormatterCall \/ EscapeICalTextCall \/ ICalFormatCall

SpecFormat == FmtInit /\ [][FmtNext]_vars

(***************************************************************************)
(* The upcoming and plan commands                                          *)
(***************************************************************************)
\* the instants at which the shifts these two commands list start and end
ListTimes == {Time(400, 0, 0), Time(500, 0, 0), Time(600, 0, 0)}
PlanTimes == {Time(400, 0, 0), Time(500, 0, 0)}

\* the API's answer carries the schedule's name with each shift
ScheduleName(shift) ==
    [shift EXCEPT !.schedule = [id |-> shift.schedule.id, name |-> <<"s">>]]

\* formatter.Format(writer, shifts, userMap, start, end) on a writer that
\* takes every write: what is written
FormatWith(formatter, shifts, userMap, start, end) ==
    IF formatter = "text" THEN TextFormat(shifts, userMap, start, end)
    ELSE <<[text |-> "calendar",
            written |-> ICalFormat([i \in 1..Len(shifts) |-> ScheduleName(shifts[i])],
                                   [u \in DOMAIN userMap |-> <<userMap[u]>>],
                                   now, 0).written]>>

\* from the shift query to the end of the upcoming command
UpcomingSteps(calls, user, scheduleID, days, format, viaBase) ==
    \E r \in GetOnCallsResults(user.id, scheduleID, ListTimes) :
      LET until == AddDays(now, days)
          c == [m |-> "GetOnCalls",
                params |-> OnCallParams(user.id, scheduleID, now, until), res |-> r]
          shifts == IF viaBase THEN DeduplicateOnCalls(r.val) ELSE r.val
          userMap == [u \in {user.id} |-> user.name]
      IN  IF r.err # "nil"
          THEN Finish(Append(calls, c), "error fetching shifts", <<>>, NoShift)
          ELSE IF viaBase /\ GetFormatter(format).err # "nil"
          THEN Finish(Append(calls, c), GetFormatter(format).err, <<>>, NoShift)
          ELSE Finish(Append(calls, c), "nil",
                      FormatWith(GetFormatter(format).formatter, shifts, userMap, now, until),
                      NoShift)

\* the body of UpcomingCommand.Execute(scheduleID, userEmail, days, formatter,
\* writer); format names the formatter that the caller made
UpcomingFrom(scheduleID, userEmail, days, format) ==
    IF userEmail = <<>> THEN Finish(<<>>, "user email is required", <<>>, NoShift)
    ELSE \E r1 \in FindUserResults(userEmail) :
           LET c1 == [m |-> "FindUserByEmail", email |-> userEmail, res |-> r1]
           IN  IF r1.err # "nil"
               THEN Finish(<<c1>>, "error finding user", <<>>, NoShift)
               ELSE UpcomingSteps(<<c1>>, r1.val, scheduleID, days, format, FALSE)

\* UpcomingCommand.Execute(scheduleID, userEmail, days, formatter, writer)
UpcomingExecute ==
    /\ cmd.name = "upcoming"
    /\ cmd.variant = "execute"
    /\ cmdPc = "start"
    /\ UpcomingFrom(cmd.schedule, cmd.user, cmd.days, cmd.format)

\* handleUpcomingCommand(args) of main.go
HandleUpcomingCommand ==
    /\ cmd.name = "upcoming"
    /\ cmd.variant = "main"
    /\ cmdPc = "start"
    /\ LET finalUserEmail == IF cmd.user = <<>> THEN cfg.my_user ELSE cmd.user
       IN  IF cmd.parse = "bad" THEN Finish(<<>>, "exit 2: flag error", <<>>, NoShift)
           ELSE IF cmd.parse = "help" THEN Finish(<<>>, "nil", <<>>, NoShift)
           ELSE IF cmd.load # "nil"
           THEN Finish(<<>>, "exit 1: Error loading configuration", <<>>, NoShift)
           ELSE IF finalUserEmail = <<>>
           THEN Finish(<<>>, "exit 1: --user is required (or set my_user in configuration)",
                       <<>>, NoShift)
           ELSE IF cfg.schedule_id = ""
           THEN Finish(<<>>, "exit 1: schedule_id must be configured", <<>>, NoShift)
           ELSE IF GetFormatter(cmd.format).err # "nil"
           THEN Finish(<<>>, "exit 1: " \o GetFormatter(cmd.format).err, <<>>, NoShift)
           ELSE UpcomingFrom(cfg.schedule_id, finalUserEmail, cmd.days, cmd.format)

\* BaseCommand.ResolveUser(email) up to the lookup: the email to look up
ResolveEmail(email) ==
    LET e == IF email = <<>> THEN cfg.my_user ELSE email
    IN  IF e = <<>>
        THEN [err |-> "user email is required (use --user flag or set my_user in config)",
              email |-> <<>>]
        ELSE [err |-> "nil", email |-> e]

\* UpcomingCommand.Execute(args), the command built on BaseCommand
UpcomingExecuteArgs ==
    /\ cmd.name = "upcoming"
    /\ cmd.variant = "base"
    /\ cmdPc = "start"
    /\ IF cmd.parse = "bad" THEN Finish(<<>>, "flag error", <<>>, NoShift)
       ELSE IF cmd.parse = "help" THEN Finish(<<>>, "nil", <<>>, NoShift)
       ELSE IF GetScheduleID.err # "nil"
       THEN Finish(<<>>, GetScheduleID.err, <<>>, NoShift)
       ELSE IF ResolveEmail(cmd.user).err # "nil"
       THEN Finish(<<>>, ResolveEmail(cmd.user).err, <<>>, NoShift)
       ELSE \E r1 \in FindUserResults(ResolveEmail(cmd.user).email) :
              LET c1 == [m |-> "FindUserByEmail", email |-> ResolveEmail(cmd.user).email,
                         res |-> r1]
              IN  IF r1.err # "nil"
                  THEN Finish(<<c1>>, r1.err, <<>>, NoShift)
                  ELSE UpcomingSteps(<<c1>>, r1.val, GetScheduleID.val, cmd.days,
                                     cmd.format, TRUE)

\* the users whose shifts are on the schedule that plan lists
PlanUsers == {"u1", "u3"}

\* what a PagerDutyClient may answer to the schedule's shift query
PlanResults(sid) ==
    {[err |-> "nil", val |-> l] :
        l \in SeqsUpTo(UNION {ShiftsOf(u, sid, PlanTimes) : u \in PlanUsers}, MaxShifts)}
        \cup {[err |-> "API error", val |-> <<>>]}

\* url.Values of the schedule's shift query
PlanParams(sid, start, end) ==
    [since |-> FormatRFC3339(start), until |-> FormatRFC3339(end),
     schedule_ids |-> <<sid>>, overflow |-> "true"]

\* the loop without the test for an entry that exists: GetUser for every shift
RECURSIVE BuildUserMapLoopEveryShift(_, _, _)
BuildUserMapLoopEveryShift(shifts, i, failing) ==
    IF i = 0 THEN [map |-> << >>, calls |-> <<>>]
    ELSE LET prev == BuildUserMapLoopEveryShift(shifts, i - 1, failing)
             id == shifts[i].user.id
             user == CHOOSE u \in AllUsers : u.id = id
             res == IF id \in failing THEN [err |-> "API error", val |-> NoUser]
                    ELSE [err |-> "nil", val |-> user]
             name == IF id \in failing THEN shifts[i].user.name ELSE user.name
         IN  [map |-> [u \in DOMAIN prev.map \cup {id} |->
                          IF u = id THEN name ELSE prev.map[u]],
              calls |-> Append(prev.calls, [m |-> "GetUser", id |-> id, res |-> res])]

\* the loop that builds the user map, after shifts[1..i]; GetUser fails for
\* the users in failing
RECURSIVE BuildUserMapLoop(_, _, _)
BuildUserMapLoop(shifts, i, failing) ==
    IF i = 0 THEN [map |-> << >>, calls |-> <<>>]
    ELSE LET prev == BuildUserMapLoop(shifts, i - 1, failing)
             id == shifts[i].user.id
             user == CHOOSE u \in AllUsers : u.id = id
             res == IF id \in failing THEN [err |-> "API error", val |-> NoUser]
                    ELSE [err |-> "nil", val |-> user]
             name == IF id \in failing THEN shifts[i].user.name ELSE user.name
         IN  IF id \in DOMAIN prev.map THEN prev
             ELSE [map |-> [u \in DOMAIN prev.map \cup {id} |->
                               IF u = id THEN name ELSE prev.map[u]],
                   calls |-> Append(prev.calls, [m |-> "GetUser", id |-> id, res |-> res])]

\* BaseCommand.BuildUserMap(onCalls), and the same loop in PlanCommand.Execute
BuildUserMap(shifts, failing) == BuildUserMapLoop(shifts, Len(shifts), failing)

\* from the shift query to the end of the plan command
PlanSteps(scheduleID, start, end, format, viaBase) ==
    \E r \in PlanResults(scheduleID), failing \in SUBSET PlanUsers :
      LET c == [m |-> "GetOnCalls", params |-> PlanParams(scheduleID, start, end),
                res |-> r]
          shifts == IF viaBase THEN DeduplicateOnCalls(r.val) ELSE r.val
          built == BuildUserMap(shifts, failing)
      IN  IF r.err # "nil"
          THEN Finish(<<c>>, "error fetching shifts", <<>>, NoShift)
          ELSE IF failing \ {shifts[i].user.id : i \in 1..Len(shifts)} # {}
          THEN FALSE
          ELSE IF viaBase /\ GetFormatter(format).err # "nil"
          THEN Finish(<<c>> \o built.calls, GetFormatter(format).err, <<>>, NoShift)
          ELSE Finish(<<c>> \o built.calls, "nil",
                      FormatWith(GetFormatter(format).formatter, shifts, built.map,
                                 start, end),
                      NoShift)

\* PlanCommand.Execute(scheduleID, start, end, formatter, writer)
PlanExecute ==
    /\ cmd.name = "plan"
    /\ cmd.variant = "execute"
    /\ cmdPc = "start"
    /\ PlanSteps(cmd.schedule, now, AddDays(now, cmd.days), cmd.format, FALSE)

\* time.Parse("2006-01-02", str): "d<k>" is the string naming day k
ParseDate(str) ==
    IF str \in {"d0", "d1"}
    THEN [err |-> "nil", val |-> Time(IF str = "d0" THEN 0 ELSE 86400, 0, 0)]
    ELSE [err |-> "parse error", val |-> Time(0, 0, 0)]

\* CalculateTimeRange(startDate, endDate, days)
CalculateTimeRange(startDate, endDate, days) ==
    LET start == IF startDate # "" THEN ParseDate(startDate).val ELSE now
    IN  IF startDate # "" /\ ParseDate(startDate).err # "nil"
        THEN [err |-> "invalid start date", start |-> Time(0, 0, 0), end |-> Time(0, 0, 0)]
        ELSE IF endDate # "" /\ ParseDate(endDate).err # "nil"
        THEN [err |-> "invalid end date", start |-> Time(0, 0, 0), end |-> Time(0, 0, 0)]
        ELSE [err |-> "nil", start |-> start,
              end |-> IF endDate # "" THEN ParseDate(endDate).val
                      ELSE AddDays(start, days)]

\* PlanCommand.Execute(args), the command built on BaseCommand
PlanExecuteArgs ==
    /\ cmd.name = "plan"
    /\ cmd.variant = "base"
    /\ cmdPc = "start"
    /\ LET range == CalculateTimeRange(cmd.start, cmd.end, cmd.days)
       IN  IF cmd.parse = "bad" THEN Finish(<<>>, "flag error", <<>>, NoShift)
           ELSE IF cmd.parse = "help" THEN Finish(<<>>, "nil", <<>>, NoShift)
           ELSE IF GetScheduleID.err # "nil"
           THEN Finish(<<>>, GetScheduleID.err, <<>>, NoShift)
           ELSE IF range.err # "nil" THEN Finish(<<>>, range.err, <<>>, NoShift)
           ELSE PlanSteps(GetScheduleID.val, range.start, range.end, cmd.format, TRUE)

\* handlePlanCommand(args) of main.go
HandlePlanCommand ==
    /\ cmd.name = "plan"
    /\ cmd.variant = "main"
    /\ cmdPc = "start"
    /\ LET start == IF cmd.start # "" THEN ParseDate(cmd.start).val ELSE now
           end == IF cmd.end # "" THEN ParseDate(cmd.end).val ELSE AddDays(start, cmd.days)
       IN  IF cmd.parse = "bad" THEN Finish(<<>>, "exit 2: flag error", <<>>, NoShift)
           ELSE IF cmd.parse = "help" THEN Finish(<<>>, "nil", <<>>, NoShift)
           ELSE IF cmd.load # "nil"
           THEN Finish(<<>>, "exit 1: Error loading configuration", <<>>, NoShift)
           ELSE IF cfg.schedule_id = ""
           THEN Finish(<<>>, "exit 1: schedule_id must be configured", <<>>, NoShift)
           ELSE IF cmd.start # "" /\ ParseDate(cmd.start).err # "nil"
           THEN Finish(<<>>, "exit 1: Error parsing start date", <<>>, NoShift)
           ELSE IF cmd.end # "" /\ ParseDate(cmd.end).err # "nil"
           THEN Finish(<<>>, "exit 1: Error parsing end date", <<>>, NoShift)
           ELSE IF GetFormatter(cmd.format).err # "nil"
           THEN Finish(<<>>, "exit 1: " \o GetFormatter(cmd.format).err, <<>>, NoShift)
           ELSE PlanSteps(cfg.schedule_id, start, end, cmd.format, FALSE)

\* handleOverrideCommand(args) of main.go
HandleOverrideCommand ==
    /\ cmd.name = "override"
    /\ cmd.variant = "main"
    /\ cmdPc = "start"
    /\ IF cmd.parse = "bad" THEN Finish(<<>>, "exit 2: flag error", <<>>, NoShift)
       ELSE IF cmd.parse = "help" THEN Finish(<<>>, "nil", <<>>, NoShift)
       ELSE IF cmd.user = <<>> \/ cmd.target = <<>> \/ cmd.start = "" \/ cmd.end = ""
       THEN Finish(<<>>, "exit 1: --user, --target, --start, and --end are all required",
                   <<>>, NoShift)
       ELSE IF cmd.load # "nil"
       THEN Finish(<<>>, "exit 1: Error loading configuration", <<>>, NoShift)
       ELSE IF cfg.schedule_id = ""
       THEN Finish(<<>>, "exit 1: schedule_id must be configured", <<>>, NoShift)
       ELSE IF ParseMinute(cmd.start).err # "nil"
       THEN Finish(<<>>, "exit 1: Error parsing start time", <<>>, NoShift)
       ELSE IF ParseMinute(cmd.end).err # "nil"
       THEN Finish(<<>>, "exit 1: Error parsing end time", <<>>, NoShift)
       ELSE IF CheckEmails(cmd.user, cmd.target) # "nil"
       THEN Finish(<<>>, CheckEmails(cmd.user, cmd.target), <<>>, NoShift)
       ELSE OverrideSteps(cfg.schedule_id, cmd.user, cmd.target,
                          ParseMinute(cmd.start).val, ParseMinute(cmd.end).val, FALSE)

(***************************************************************************)
(* The interactive shell.  A line is a sequence of atoms: " " is a space,  *)
(* "\"" a double quote, a one-letter atom a letter of an email address,    *)
(* any other atom a run of characters without spaces or quotes.  A word of *)
(* a line is the sequence of atoms between two runs of spaces.             *)
(***************************************************************************)
MaxLines == 2

\* strings.TrimSpace(line)
RECURSIVE TrimSpace(_)
TrimSpace(line) ==
    IF line = <<>> THEN line
    ELSE IF Head(line) = " " THEN TrimSpace(Tail(line))
    ELSE IF line[Len(line)] = " " THEN TrimSpace(SubSeq(line, 1, Len(line) - 1))
    ELSE line

\* strings.Fields(line) after the first i atoms: the words that are complete
\* and the word being read
RECURSIVE FieldsLoop(_, _)
FieldsLoop(line, i) ==
    IF i = 0 THEN [words |-> <<>>, cur |-> <<>>]
    ELSE LET prev == FieldsLoop(line, i - 1)
         IN  IF line[i] = " "
             THEN IF prev.cur = <<>> THEN prev
                  ELSE [words |-> Append(prev.words, prev.cur), cur |-> <<>>]
             ELSE [words |-> prev.words, cur |-> Append(prev.cur, line[i])]

\* strings.Fields(line)
Fields(line) ==
    LET all == FieldsLoop(line, Len(line))
    IN  IF all.cur = <<>> THEN all.words ELSE Append(all.words, all.cur)

\* strconv.Atoi(word)
Atoi(word) ==
    IF word = <<"7">> THEN [err |-> "nil", val |-> 7]
    ELSE IF word = <<"14">> THEN [err |-> "nil", val |-> 14]
    ELSE [err |-> "invalid syntax", val |-> 0]

\* the string of a word as the date-and-time parser names it: "M<k>" for a
\* date, one space and the clock time of minute k
MinuteString(word) ==
    IF word = <<>> THEN ""
    ELSE IF word = <<"2024-03-20", " ", "09:00">> THEN "M1"
    ELSE IF word = <<"2024-03-20", " ", "17:00">> THEN "M10"
    ELSE "bad"

\* the string of a word as the date parser names it
DateString(word) ==
    IF word = <<>> THEN ""
    ELSE IF word = <<"1970-01-01">> THEN "d0"
    ELSE IF word = <<"1970-01-02">> THEN "d1"
    ELSE "bad"

\* the words that the flag package takes for flags, and the flag each names
FlagWords ==
    {<<"--user">>, <<"--target">>, <<"--days">>, <<"--start">>, <<"--end">>,
     <<"--format">>, <<"-o">>, <<"--help">>, <<"--bogus">>}

FlagName(word) ==
    CASE word = <<"--user">> -> "user"
      [] word = <<"--target">> -> "target"
      [] word = <<"--days">> -> "days"
      [] word = <<"--start">> -> "start"
      [] word = <<"--end">> -> "end"
      [] word = <<"--format">> -> "format"
      [] word = <<"-o">> -> "format"
      [] word = <<"--help">> -> "help"
      [] OTHER -> "bogus"

\* the flags that each command defines
FlagsOf(command) ==
    CASE command = "next" -> {"user", "days"}
      [] command = "upcoming" -> {"user", "days", "format"}
      [] command = "plan" -> {"days", "start", "end", "format"}
      [] OTHER -> {"user", "target", "start", "end"}

\* the default of --days
DaysDefault(command) == IF command = "next" THEN DefaultDays ELSE 28

\* the values of the flags before parsing
FlagDefaults(command) ==
    [user |-> <<>>, target |-> <<>>, start |-> <<>>, end |-> <<>>,
     format |-> <<"t", "e", "x", "t">>, days |-> DaysDefault(command)]

\* flag.FlagSet.Parse from words[i] on: a word that is no flag ends the
\* parsing; a flag takes the next word as its value
RECURSIVE ParseFrom(_, _, _, _)
ParseFrom(words, i, known, vals) ==
    IF i > Len(words) \/ words[i] \notin FlagWords
    THEN [parse |-> "ok", vals |-> vals]
    ELSE LET name == FlagName(words[i])
         IN  IF name \notin known
             THEN [parse |-> IF name = "help" THEN "help" ELSE "bad", vals |-> vals]
             ELSE IF i + 1 > Len(words) THEN [parse |-> "bad", vals |-> vals]
             ELSE IF name = "days"
             THEN IF Atoi(words[i + 1]).err # "nil"
                  THEN [parse |-> "bad", vals |-> vals]
                  ELSE ParseFrom(words, i + 2, known,
                                 [vals EXCEPT !.days = Atoi(words[i + 1]).val])
             ELSE ParseFrom(words, i + 2, known, [vals EXCEPT ![name] = words[i + 1]])

\* the call that the command registry makes for `command args...`
RegistryCall(command, args) ==
    LET p == ParseFrom(args, 1, FlagsOf(command), FlagDefaults(command))
    IN  CASE command = "next" ->
               [name |-> "next", variant |-> "base", parse |-> p.parse,
                user |-> p.vals.user, days |-> p.vals.days]
          [] command = "upcoming" ->
               [name |-> "upcoming", variant |-> "base", parse |-> p.parse,
                user |-> p.vals.user, days |-> p.vals.days, format |-> p.vals.format]
          [] command = "plan" ->
               [name |-> "plan", variant |-> "base", parse |-> p.parse,
                days |-> p.vals.days, start |-> DateString(p.vals.start),
                end |-> DateString(p.vals.end), format |-> p.vals.format]
          [] OTHER ->
               [name |-> "override", variant |-> "base", parse |-> p.parse,
                user |-> p.vals.user, target |-> p.vals.target,
                start |-> MinuteString(p.vals.start), end |-> MinuteString(p.vals.end)]

\* what handling a line comes to: its output, and the command to run, if any
Printed(lines) == [kind |-> "printed", out |-> lines, call |-> [name |-> "none"]]
Calls(c) == [kind |-> "call", out |-> <<>>, call |-> c]

\* the configured user first, the email of args only when none is configured
EmailArgConfigFirst(args) ==
    IF cfg.my_user # <<>> THEN cfg.my_user
    ELSE IF Len(args) > 0 THEN args[1] ELSE <<>>

\* the email and the days that handleNext and handleUpcoming take from args
EmailArg(args) ==
    LET email == IF Len(args) > 0 THEN args[1] ELSE <<>>
    IN  IF email = <<>> THEN cfg.my_user ELSE email

DaysArg(args, default) ==
    IF Len(args) > 1 /\ Atoi(args[2]).err = "nil" THEN Atoi(args[2]).val ELSE default

\* ReplCommand.handleNext(scheduleID, args)
handleNext(scheduleID, args) ==
    IF EmailArg(args) = <<>>
    THEN Printed(<<[text |-> "Usage: next [email] - email is required or set my_user"]>>)
    ELSE Calls([name |-> "next", variant |-> "execute", schedule |-> scheduleID,
                user |-> EmailArg(args), days |-> DaysArg(args, DefaultDays)])

\* ReplCommand.handlePlan(scheduleID, args)
handlePlan(scheduleID, args) ==
    IF Len(args) > 0 /\ Atoi(args[1]).err # "nil"
    THEN Printed(<<[text |-> "Invalid days value"]>>)
    ELSE Calls([name |-> "plan", variant |-> "execute", schedule |-> scheduleID,
                days |-> IF Len(args) > 0 THEN Atoi(args[1]).val ELSE 7,
                format |-> <<"t", "e", "x", "t">>])

\* ReplCommand.handleUpcoming(scheduleID, args)
handleUpcoming(scheduleID, args) ==
    IF EmailArg(args) = <<>>
    THEN Printed(<<[text |-> "Usage: upcoming [email] [days] - email is required or set my_user"]>>)
    ELSE Calls([name |-> "upcoming", variant |-> "execute", schedule |-> scheduleID,
                user |-> EmailArg(args), days |-> DaysArg(args, 28),
                format |-> <<"t", "e", "x", "t">>])

\* ReplCommand.handleOverride(scheduleID, args)
handleOverride(scheduleID, args) ==
    IF Len(args) < 4
    THEN Printed(<<[text |-> "Usage: override <user-email> <target-email> <start> <end>"]>>)
    ELSE IF ParseMinute(MinuteString(args[3])).err # "nil"
    THEN Printed(<<[text |-> "Error parsing start time", word |-> args[3]]>>)
    ELSE IF ParseMinute(MinuteString(args[4])).err # "nil"
    THEN Printed(<<[text |-> "Error parsing end time", word |-> args[4]]>>)
    ELSE Calls([name |-> "override", variant |-> "execute", schedule |-> scheduleID,
                user |-> args[1], target |-> args[2],
                start |-> ParseMinute(MinuteString(args[3])).val,
                end |-> ParseMinute(MinuteString(args[4])).val])

\* the first word is quit
IsQuitOnly(command) == command = <<"quit">>

\* case "quit", "exit"
IsQuit(command) == command \in {<<"quit">>, <<"exit">>}

\* a switch that sends every command word to the handler of next
DispatchAllToNext(variant, scheduleID, words) ==
    LET command == words[1]
        args == Tail(words)
    IN  IF command \in {<<"help">>, <<"?">>} THEN Printed(<<[text |-> "Available commands"]>>)
        ELSE IF IsQuit(command)
        THEN [kind |-> "quit", out |-> <<[text |-> "Goodbye!"]>>, call |-> [name |-> "none"]]
        ELSE IF command \in {<<"next">>, <<"plan">>, <<"upcoming">>, <<"override">>}
        THEN IF variant = "new" THEN Calls(RegistryCall("next", args))
             ELSE handleNext(scheduleID, args)
        ELSE Printed(<<[text |-> "Unknown command", command |-> command]>>)

\* the switch on the first word of a line that has one
Dispatch(variant, scheduleID, words) ==
    LET command == words[1]
        args == Tail(words)
    IN  IF command \in {<<"help">>, <<"?">>} THEN Printed(<<[text |-> "Available commands"]>>)
        ELSE IF IsQuit(command)
        THEN [kind |-> "quit", out |-> <<[text |-> "Goodbye!"]>>, call |-> [name |-> "none"]]
        ELSE IF command \in {<<"next">>, <<"plan">>, <<"upcoming">>, <<"override">>}
        THEN IF variant = "new" THEN Calls(RegistryCall(command[1], args))
             ELSE IF command = <<"next">> THEN handleNext(scheduleID, args)
             ELSE IF command = <<"plan">> THEN handlePlan(scheduleID, args)
             ELSE IF command = <<"upcoming">> THEN handleUpcoming(scheduleID, args)
             ELSE handleOverride(scheduleID, args)
        ELSE Printed(<<[text |-> "Unknown command", command |-> command]>>)

\* one pass of the loop over a line that the scanner delivered
HandleLine(variant, scheduleID, line) ==
    IF TrimSpace(line) = <<>> \/ Len(Fields(TrimSpace(line))) = 0 THEN Printed(<<>>)
    ELSE Dispatch(variant, scheduleID, Fields(TrimSpace(line)))

\* the lines typed at the prompt of the shell of repl.go
OldLines ==
    {<<>>, <<" ">>, <<"help">>, <<"?">>, <<"quit">>, <<" ", "exit", " ", "now">>,
     <<"QUIT">>, <<"bogus", " ", "quit">>,
     <<"next">>, <<"next", " ", "a", "n">>, <<"next", " ", "x", " ", "7">>,
     <<"plan">>, <<"plan", " ", "x">>, <<"plan", " ", "14">>,
     <<"upcoming">>, <<"upcoming", " ", "7">>, <<"upcoming", " ", "a", "n", " ", "7">>,
     <<"override">>,
     <<"override", " ", "a", "n", " ", "b", " ",
       "\"", "2024-03-20", " ", "09:00", "\"", " ",
       "\"", "2024-03-20", " ", "17:00", "\"">>,
     <<"override", " ", "a", "n", " ", "b", " ",
       "2024-03-20", " ", "09:00", " ", "2024-03-20", " ", "17:00">>}

\* the lines typed at the prompt of the shell built on BaseCommand
NewLines ==
    {<<>>, <<"help">>, <<"exit">>, <<"quit", " ", "x">>, <<"bogus", " ", "exit">>,
     <<"next">>, <<"next", " ", "--user", " ", "a", "n">>, <<"next", " ", "--bogus">>,
     <<"next", " ", "--help">>, <<"next", " ", "--user">>,
     <<"upcoming", " ", "--days", " ", "7">>,
     <<"upcoming", " ", "--user", " ", "a", "n", " ", "-o", " ", "i", "c", "a", "l">>,
     <<"upcoming", " ", "--format", " ", "j", "s", "o", "n">>,
     <<"plan">>, <<"plan", " ", "--days", " ", "x">>,
     <<"plan", " ", "--start", " ", "1970-01-01", " ", "--end", " ", "1970-01-02">>,
     <<"override">>,
     <<"override", " ", "--user", " ", "a", "n", " ", "--target", " ", "b", " ",
       "--start", " ", "\"", "2024-03-20", " ", "09:00", "\"", " ",
       "--end", " ", "\"", "2024-03-20", " ", "17:00", "\"">>}

ReplLines(variant) == IF variant = "old" THEN OldLines ELSE NewLines

\* a failed command ends the loop with its error
AfterCommandFatal(err) ==
    IF err # "nil" THEN [pc |-> "ended", ret |-> err] ELSE [pc |-> "prompt", ret |-> "none"]

\* after a handler: print the error, if any, and go round the loop again
AfterCommand(err) == [pc |-> "prompt", ret |-> "none"]

\* scanner.Scan() returns false: the input is at its end, or reading failed
\* (scanner.Err() is then not nil)
ReplEndOfInput ==
    /\ replPc = "prompt"
    /\ \E k \in {"eof", "error"} :
         /\ k = "eof" => remaining = 0
         /\ lastScan' = [kind |-> k]
         /\ replRet' = IF k = "eof" THEN "nil" ELSE "error reading input"
    /\ replPc' = "ended"
    /\ replOut' = <<>>
    /\ UNCHANGED <<repl, remaining, cmdVars, dedupVars, clientVars, fmtVars, confVars>>

\* scanner.Scan() delivers a line: the pass of the loop up to the end of a
\* handler that runs no command, or up to the call of the command
ReplLine ==
    /\ replPc = "prompt"
    /\ remaining > 0
    /\ \E line \in ReplLines(repl.variant) :
         LET h == HandleLine(repl.variant, repl.schedule, line)
         IN  /\ lastScan' = [kind |-> "line", line |-> line]
             /\ replOut' = h.out
             /\ replPc' = CASE h.kind = "quit" -> "ended"
                            [] h.kind = "call" -> "calling"
                            [] OTHER -> "prompt"
             /\ replRet' = IF h.kind = "quit" THEN "nil" ELSE replRet
             /\ cmd' = h.call
             /\ cmdPc' = IF h.kind = "call" THEN "start" ELSE "off"
    /\ remaining' = remaining - 1
    /\ UNCHANGED <<repl, cfg, now, apiCalls, cmdErr, out, nextShift,
                   dedupVars, clientVars, fmtVars, confVars>>

\* the command that a handler ran has returned
ReplReturn ==
    /\ replPc = "calling"
    /\ cmdPc = "done"
    /\ replOut' = out \o (IF cmdErr # "nil" THEN <<[text |-> "Error", err |-> cmdErr]>>
                          ELSE <<>>)
    /\ replPc' = AfterCommand(cmdErr).pc
    /\ replRet' = IF AfterCommand(cmdErr).ret = "none" THEN replRet
                  ELSE AfterCommand(cmdErr).ret
    /\ cmd' = [name |-> "none"]
    /\ cmdPc' = "off"
    /\ apiCalls' = <<>>
    /\ cmdErr' = "nil"
    /\ out' = <<>>
    /\ nextShift' = NoShift
    /\ UNCHANGED <<repl, remaining, lastScan, cfg, now,
                   dedupVars, clientVars, fmtVars, confVars>>

\* what --format is given on the command line
CliFormats == {<<"t", "e", "x", "t">>, <<"I", "C", "S">>, <<"j", "s", "o", "n">>}

\* the program is started as the shell, or main runs next, upcoming, plan
\* or override with the arguments of the command line
CliInit ==
    /\ apiCalls = <<>>
    /\ cmdErr = "nil"
    /\ out = <<>>
    /\ nextShift = NoShift
    /\ now = Time(300, 0, 0)
    /\ \/ /\ repl \in [variant : {"old"}, schedule : {"c"}]
          /\ cfg \in [schedule_id : {"c"}, my_user : {<<>>, <<"b">>}]
          /\ remaining \in 0..MaxLines
          /\ replPc = "prompt"
          /\ cmd = [name |-> "none"]
          /\ cmdPc = "off"
       \/ /\ repl \in [variant : {"new"}, schedule : {""}]
          /\ cfg \in [schedule_id : {"", "c"}, my_user : {<<>>, <<"b">>}]
          /\ remaining \in 0..MaxLines
          /\ replPc = "prompt"
          /\ cmd = [name |-> "none"]
          /\ cmdPc = "off"
       \/ /\ repl = [variant |-> "none"]
          /\ remaining = 0
          /\ replPc = "off"
          /\ cfg \in [schedule_id : {"", "c"}, my_user : {<<>>, <<"b">>}]
          /\ cmdPc = "start"
          /\ \/ cmd \in [name : {"next"}, variant : {"main"},
                         parse : {"ok", "help", "bad"},
                         load : {"nil", "no configuration file found"},
                         user : UserEmails, days : {DefaultDays}]
             \/ cmd \in [name : {"upcoming"}, variant : {"main"},
                         parse : {"ok", "help", "bad"},
                         load : {"nil", "no configuration file found"},
                         user : UserEmails, days : {28}, format : CliFormats]
             \/ cmd \in [name : {"next"}, variant : {"base"},
                         parse : {"ok", "help", "bad"},
                         user : UserEmails, days : {DefaultDays}]
             \/ cmd \in [name : {"upcoming"}, variant : {"base"},
                         parse : {"ok", "help", "bad"},
                         user : UserEmails, days : {28}, format : CliFormats]
             \/ cmd \in [name : {"plan"}, variant : {"main"}, parse : {"ok", "help", "bad"},
                         load : {"nil", "no configuration file found"}, days : {28},
                         start : {"", "bad"}, end : {""},
                         format : {<<"t", "e", "x", "t">>, <<"j", "s", "o", "n">>}]
             \/ cmd \in [name : {"plan"}, variant : {"base"}, parse : {"ok", "help", "bad"},
                         days : {28}, start : {"", "bad"}, end : {""},
                         format : {<<"t", "e", "x", "t">>}]
             \/ cmd \in [name : {"override"}, variant : {"main"},
                         parse : {"ok", "help", "bad"},
                         load : {"nil", "no configuration file found"},
                         user : UserEmails, target : {<<"b">>},
                         start : {"M1", "bad"}, end : {"M10"}]
             \/ cmd \in [name : {"override"}, variant : {"execute"}, schedule : {"c"},
                         user : {<<"a", "n">>}, target : {<<"b">>},
                         start : {Time(60, 0, 0)}, end : {Time(600, 0, 0)}]
             \/ cmd \in [name : {"override"}, variant : {"base"},
                         parse : {"ok", "help", "bad"},
                         user : UserEmails, target : {<<"b">>},
                         start : {"M1", "bad"}, end : {"M10"}]
    /\ lastScan = [kind |-> "none"]
    /\ replOut = <<>>
    /\ replRet = "none"
    /\ DedupIdle
    /\ ClientIdle
    /\ FmtIdle
    /\ ConfIdle

CliNext ==
    \/ ReplEndOfInput
    \/ ReplLine
    \/ ReplReturn
    \/ NextExecute
    \/ NextExecuteArgs
    \/ HandleNextCommand
    \/ UpcomingExecute
    \/ UpcomingExecuteArgs
    \/ HandleUpcomingCommand
    \/ PlanExecute
    \/ PlanExecuteArgs
    \/ OverrideExecute
    \/ OverrideExecuteArgs
    \/ HandlePlanCommand
    \/ HandleOverrideCommand

SpecCli == CliInit /\ [][CliNext]_vars

\* every step that can be taken is taken in the end
SpecCliFair == SpecCli /\ WF_vars(CliNext)

(***************************************************************************)
(* Configuration loading.  The search list is a sequence of locations; a   *)
(* location is the kind of its path and what is there: no file, a file     *)
(* that cannot be read, a file that is no YAML configuration, or the       *)
(* values of a configuration file.                                         *)
(***************************************************************************)
MaxLocations == 2   \* longest search list

NoConfig == [pagerduty_token |-> "", schedule_id |-> "", my_user |-> ""]

\* the values that a YAML configuration file gives ("": the key is missing
\* or its value is empty)
ConfigValues ==
    [pagerduty_token : {"", "tok"}, schedule_id : {"", "c"}, my_user : {"", "me"}]

\* what is at a path: kind "yaml" is a file that yaml.Unmarshal accepts
File(kind, values) == [kind |-> kind, values |-> values]

FileStates ==
    {File(k, NoConfig) : k \in {"absent", "unreadable", "malformed"}}
        \cup {File("yaml", v) : v \in ConfigValues}

\* "clean": filepath.Clean leaves the path as it is and it holds no "..";
\* "unclean": filepath.Clean changes it; "dotdot": clean with ".." in a name
PathKinds == {"clean", "unclean", "dotdot"}

Locations == [path : PathKinds, file : FileStates]

\* os.Stat(path) returns no error
StatOK(loc) == loc.file.kind # "absent"

\* the first location of the list whose file loads
FirstLoadable(locs) ==
    LET ok == {i \in 1..Len(locs) :
                 /\ locs[i].path = "clean"
                 /\ locs[i].file.kind = "yaml"
                 /\ locs[i].file.values.pagerduty_token # ""}
    IN  IF ok = {} THEN 0 ELSE CHOOSE i \in ok : \A j \in ok : i <= j

\* the loop over the paths: the first location at which os.Stat succeeds
\* (0: none)
FirstExisting(locs) ==
    LET ok == {i \in 1..Len(locs) : StatOK(locs[i])}
    IN  IF ok = {} THEN 0 ELSE CHOOSE i \in ok : \A j \in ok : i <= j

\* a validation that accepts every configuration
validateAny(config) == "nil"

\* validate(config)
validate(config) ==
    IF config.pagerduty_token = ""
    THEN "'pagerduty_token' is required in configuration"
    ELSE "nil"

\* loadFromFile(path) for the path of location loc; read: os.ReadFile was called
loadFromFile(loc) ==
    IF loc.path = "unclean"
    THEN [err |-> "invalid file path", config |-> NoConfig, read |-> FALSE]
    ELSE IF loc.path = "dotdot"
    THEN [err |-> "directory traversal not allowed in path", config |-> NoConfig,
          read |-> FALSE]
    ELSE IF loc.file.kind \in {"absent", "unreadable"}
    THEN [err |-> "error reading config file", config |-> NoConfig, read |-> TRUE]
    ELSE IF loc.file.kind = "malformed"
    THEN [err |-> "error parsing config file", config |-> NoConfig, read |-> TRUE]
    ELSE IF validate(loc.file.values) # "nil"
    THEN [err |-> "invalid configuration: " \o validate(loc.file.values), config |-> NoConfig,
          read |-> TRUE]
    ELSE [err |-> "nil", config |-> loc.file.values, read |-> TRUE]

ConfDone(result, reads) ==
    /\ confRet' = result
    /\ confReads' = reads
    /\ confPc' = "done"
    /\ UNCHANGED <<files, confCall, dedupVars, clientVars, cmdVars, fmtVars, replVars>>

\* a search that goes on to the next location when a file does not load
LoadOutcomeSkipping(locs) ==
    LET i == FirstLoadable(locs)
    IN  IF i = 0
        THEN [ret |-> [err |-> "no configuration file found", config |-> NoConfig,
                       loaded |-> FALSE],
              reads |-> <<>>]
        ELSE [ret |-> [err |-> "nil", config |-> locs[i].file.values, loaded |-> TRUE],
              reads |-> <<i>>]

\* the body of Load() on the search list locs: what it returns and the
\* locations whose file it reads
LoadOutcome(locs) ==
    LET i == FirstExisting(locs)
    IN  IF i = 0
        THEN [ret |-> [err |-> "no configuration file found", config |-> NoConfig,
                       loaded |-> FALSE],
              reads |-> <<>>]
        ELSE LET l == loadFromFile(locs[i])
             IN  [ret |-> [err |-> l.err, config |-> l.config, loaded |-> l.err = "nil"],
                  reads |-> IF l.read THEN <<i>> ELSE <<>>]

\* Load()
Load ==
    /\ confCall = "Load"
    /\ confPc = "start"
    /\ ConfDone(LoadOutcome(files).ret, LoadOutcome(files).reads)

\* no warnings at all
NoWarnings(config) == <<>>

\* the warnings for the optional fields that are not set
OptionalWarnings(config) ==
    (IF config.schedule_id = ""
     THEN <<"Optional field 'schedule_id' is not set">> ELSE <<>>)
        \o (IF config.my_user = ""
            THEN <<"Optional field 'my_user' is not set">> ELSE <<>>)

NoFields == [f \in {} |-> FALSE]

\* ValidateConfig()
ValidateConfig ==
    /\ confCall = "ValidateConfig"
    /\ confPc = "start"
    /\ LET i == FirstExisting(files)
           result == [err |-> "nil", ConfigPath |-> i, Valid |-> FALSE, Errors |-> <<>>,
                      Warnings |-> <<>>, RequiredFields |-> NoFields,
                      OptionalFields |-> NoFields,
                      ConfigLocations |-> [k \in 1..Len(files) |-> k]]
       IN  IF i = 0
           THEN ConfDone([result EXCEPT !.Errors = <<"No configuration file found">>], <<>>)
           ELSE LET l == loadFromFile(files[i])
                    hasToken == l.config.pagerduty_token # ""
                IN  IF l.err # "nil"
                    THEN ConfDone([result EXCEPT
                                     !.Errors = <<"Error loading config: " \o l.err>>],
                                  IF l.read THEN <<i>> ELSE <<>>)
                    ELSE ConfDone(
                           [result EXCEPT
                              !.Valid = hasToken,
                              !.Errors = IF hasToken THEN <<>>
                                         ELSE <<"Required field 'pagerduty_token' is missing or empty">>,
                              !.RequiredFields = [f \in {"pagerduty_token"} |-> hasToken],
                              !.OptionalFields =
                                  [f \in {"schedule_id", "my_user"} |-> l.config[f] # ""],
                              !.Warnings = OptionalWarnings(l.config)],
                           <<i>>)

ConfInit ==
    /\ files \in SeqsUpTo(Locations, MaxLocations)
    /\ confCall \in {"Load", "ValidateConfig"}
    /\ confReads = <<>>
    /\ confRet = [err |-> "nil"]
    /\ confPc = "start"
    /\ DedupIdle
    /\ ClientIdle
    /\ CmdIdle
    /\ FmtIdle
    /\ ReplIdle

ConfNext == Load \/ ValidateConfig

SpecConfig == ConfInit /\ [][ConfNext]_vars

(***************************************************************************)
(* Claims about the override command                                       *)
(***************************************************************************)
\* the command went through all four calls and returned nil
OverrideSucceeded ==
    cmd.name = "override" /\ cmdPc = "done" /\ cmdErr = "nil" /\ Len(apiCalls) = 4

\* the classes of positions of a list that hold the same shift
DistinctShifts(l) ==
    {{j \in 1..Len(l) : SameShift(l[i], l[j])} : i \in 1..Len(l)}

ConfiguredSchedule == IF cmd.variant = "execute" THEN cmd.schedule ELSE cfg.schedule_id

\* C7: on success the overrides submitted are one for each distinct shift
\* that GetOnCalls returned for the target, with that shift's start and end,
\* the replacing user's ID, type user_reference and time zone UTC, on the
\* configured schedule, and the count printed is their number.
C7_OneOverridePerShift ==
    OverrideSucceeded =>
        LET returned  == apiCalls[3].res.val
            submitted == apiCalls[4].overrides
            replacing == apiCalls[1].res.val
        IN  /\ Len(submitted) = Cardinality(DistinctShifts(returned))
            /\ \A i \in 1..Len(returned) :
                 Cardinality({k \in 1..Len(submitted) :
                                /\ submitted[k].start = returned[i].start
                                /\ submitted[k].end = returned[i].end}) = 1
            /\ \A k \in 1..Len(submitted) :
                 /\ submitted[k].user = [id |-> replacing.id, type |-> "user_reference"]
                 /\ submitted[k].time_zone = "UTC"
            /\ EqualFold(replacing.email, cmd.user)
            /\ apiCalls[4].schedule = ConfiguredSchedule
            /\ out[1].count = Len(submitted)

\* a request to create overrides that lacks one of its values
OverrideRequestIncomplete ==
    /\ cmd.name = "override"
    /\ cmdPc = "done"
    /\ \/ cmd.variant = "execute" /\ (cmd.user = <<>> \/ cmd.target = <<>>)
       \/ /\ cmd.variant = "base"
          /\ cmd.parse = "ok"
          /\ (cmd.user = <<>> \/ cmd.target = <<>> \/ cmd.start = "" \/ cmd.end = "")

OverrideReturned == cmdPc = "done" /\ cmd.name = "override"

\* the names of the calls made, in order
CallNames == [i \in 1..Len(apiCalls) |-> apiCalls[i].m]

OverrideCallOrder == <<"FindUserByEmail", "FindUserByEmail", "GetOnCalls", "CreateOverrides">>

CreateCalls == {i \in 1..Len(apiCalls) : apiCalls[i].m = "CreateOverrides"}

\* C22: in one run of the override command the calls are FindUserByEmail of
\* the user, FindUserByEmail of the target, GetOnCalls, CreateOverrides, in
\* this order, each made only if all earlier ones succeeded; CreateOverrides
\* is called at most once, and never after a failed lookup, a failed shift
\* query or an empty list of shifts, which is an error
C22_CallsInOrder ==
    OverrideReturned =>
        /\ Len(apiCalls) <= 4
        /\ CallNames = SubSeq(OverrideCallOrder, 1, Len(apiCalls))
        /\ Len(apiCalls) >= 1 => apiCalls[1].email = cmd.user
        /\ Len(apiCalls) >= 2 => apiCalls[2].email = cmd.target
        /\ \A i \in 1..(Len(apiCalls) - 1) : apiCalls[i].res.err = "nil"
        /\ Cardinality(CreateCalls) <= 1
        /\ CreateCalls # {} => Len(apiCalls[3].res.val) > 0
        /\ (Len(apiCalls) = 3 /\ apiCalls[3].res.err = "nil") =>
             /\ apiCalls[3].res.val = <<>>
             /\ cmdErr = "no shifts found for target user"
        /\ cmdErr = "nil" =>
             \/ CreateCalls # {} /\ apiCalls[4].res.err = "nil"
             \/ cmd.variant # "execute" /\ cmd.parse = "help"

\* the target user has no shift in the window: three calls and an error
C22_Witness ==
    /\ OverrideReturned
    /\ Len(apiCalls) = 3
    /\ apiCalls[3].res.val = <<>>
    /\ apiCalls[3].res.err = "nil"
    /\ cmdErr = "no shifts found for target user"

\* the window that the command was asked for
RequestedStart == IF cmd.variant = "execute" THEN cmd.start ELSE ParseMinute(cmd.start).val
RequestedEnd == IF cmd.variant = "execute" THEN cmd.end ELSE ParseMinute(cmd.end).val

\* C26: every override that the override command creates lies inside the
\* requested window, its start not before the requested start and its end
\* not after the requested end, whatever shifts the API returns
C26_OverridesInsideWindow ==
    (OverrideReturned /\ CreateCalls # {}) =>
        \A i \in 1..Len(apiCalls[4].overrides) :
            /\ ~Before(apiCalls[4].overrides[i].start, RequestedStart)
            /\ ~After(apiCalls[4].overrides[i].end, RequestedEnd)

(***************************************************************************)
(* Claims about the next command                                           *)
(***************************************************************************)
\* the next command got the shifts of the look-ahead window and returned
NextAnswered ==
    /\ cmd.name = "next"
    /\ cmdPc = "done"
    /\ cmdErr = "nil"
    /\ Len(apiCalls) = 2

ReturnedShifts == apiCalls[2].res.val

InProgress(shift) == Before(shift.start, now) /\ After(shift.end, now)

StartsLater(shift) == After(shift.start, now)

ReportsAShift == out[1].text \in {"Currently on call", "Next shift:"}

\* C9: when a returned shift is in progress or starts after the current
\* time the command reports a shift, and it prints 'No upcoming shifts
\* found' only when no returned shift is in progress or in the future.
C9_ReportsUpcomingShift ==
    NextAnswered =>
        /\ (\E i \in 1..Len(ReturnedShifts) :
                InProgress(ReturnedShifts[i]) \/ StartsLater(ReturnedShifts[i]))
              => ReportsAShift
        /\ out[1].text = "No upcoming shifts found" =>
              \A i \in 1..Len(ReturnedShifts) :
                  ~InProgress(ReturnedShifts[i]) /\ ~StartsLater(ReturnedShifts[i])

UpperLower ==
    {<<"T", "t">>, <<"E", "e">>, <<"X", "x">>, <<"I", "i">>, <<"C", "c">>,
     <<"A", "a">>, <<"L", "l">>, <<"S", "s">>}

\* a and b are the same but for the case of their letters
CaseVariant(a, b) ==
    /\ Len(a) = Len(b)
    /\ \A i \in 1..Len(a) :
         a[i] = b[i] \/ <<a[i], b[i]>> \in UpperLower \/ <<b[i], a[i]>> \in UpperLower

NamesText(format) ==
    CaseVariant(format, <<"t", "e", "x", "t">>) \/ CaseVariant(format, <<"t", "x", "t">>)

NamesICal(format) ==
    CaseVariant(format, <<"i", "c", "a", "l">>) \/ CaseVariant(format, <<"i", "c", "s">>)

GetFormatterReturned == fpc = "done" /\ fcall.name = "GetFormatter"

\* C12: GetFormatter gives the text formatter for 'text' and 'txt' and the
\* iCalendar formatter for 'ical' and 'ics', whatever the case of the
\* letters, and an error and no formatter for every other string, the empty
\* one included.
C12_FormatterByName ==
    GetFormatterReturned =>
        /\ NamesText(fcall.format) => fret = [err |-> "nil", formatter |-> "text"]
        /\ NamesICal(fcall.format) => fret = [err |-> "nil", formatter |-> "ical"]
        /\ (~NamesText(fcall.format) /\ ~NamesICal(fcall.format)) =>
              (fret.err # "nil" /\ fret.formatter = "nil")

\* GetFormatter was asked for "iCal" and gave the iCalendar formatter
C12_Witness ==
    /\ GetFormatterReturned
    /\ fcall.format = <<"i", "C", "a", "l">>
    /\ fret.formatter = "ical"

\* what one character of the input becomes
EscapedChar(c) ==
    CASE c = "\\" -> <<"\\", "\\">>
      [] c = "," -> <<"\\", ",">>
      [] c = ";" -> <<"\\", ";">>
      [] c = "LF" -> <<"\\", "n">>
      [] c = "CR" -> <<"\\", "r">>
      [] OTHER -> <<c>>

RECURSIVE EscapedText(_)
EscapedText(text) ==
    IF text = <<>> THEN <<>> ELSE EscapedChar(Head(text)) \o EscapedText(Tail(text))

EscapeReturned == fpc = "done" /\ fcall.name = "escapeICalText"

\* C14: the result of escapeICalText is its input with every backslash
\* doubled, every comma, semicolon, line feed and carriage return replaced by
\* backslash-comma, backslash-semicolon, backslash-n and backslash-r, and
\* every other character as it was; a backslash that the escaping wrote is
\* not escaped again.
C14_EscapesEachCharacterOnce ==
    EscapeReturned => fret.text = EscapedText(fcall.text)

\* a text with a backslash, a comma and a line feed was escaped
C14_Witness ==
    /\ EscapeReturned
    /\ fcall.text = <<"\\", ",", "LF">>
    /\ fret.text = <<"\\", "\\", "\\", ",", "\\", "n">>

\* the positions of a text at which a CR LF pair starts
LineEnds(text) ==
    {i \in 1..(Len(text) - 1) : text[i] = "CR" /\ text[i + 1] = "LF"}

\* the lines of a text: the runs of characters that a CR LF pair ends, and
\* what follows the last pair
SplitLines(text) ==
    LET ends == LineEnds(text)
        nth(k) == CHOOSE e \in ends : Cardinality({x \in ends : x < e}) = k - 1
        from(k) == IF k = 1 THEN 1 ELSE nth(k - 1) + 2
        last == IF ends = {} THEN 1 ELSE nth(Cardinality(ends)) + 2
    IN  [lines |-> [k \in 1..Cardinality(ends) |-> SubSeq(text, from(k), nth(k) - 1)],
         open |-> SubSeq(text, last, Len(text))]

WellFormedLines(split, shifts) ==
    LET lines == split.lines
        n     == Len(lines)
        begins == {i \in 1..n : lines[i] = <<"BEGIN:VEVENT">>}
        ends   == {i \in 1..n : lines[i] = <<"END:VEVENT">>}
    IN  /\ split.open = <<>>
        /\ \A i \in 1..n : \A k \in 1..Len(lines[i]) : lines[i][k] \notin {"CR", "LF"}
        /\ n >= 5
        /\ lines[1] = <<"BEGIN:VCALENDAR">>
        /\ lines[2] = <<"VERSION:2.0">>
        /\ lines[3] = <<"PRODID:-//myshift-go//ON-CALL SCHEDULE//EN">>
        /\ lines[4] = <<"CALSCALE:GREGORIAN">>
        /\ lines[n] = <<"END:VCALENDAR">>
        /\ Cardinality(begins) = Len(shifts)
        /\ Cardinality(ends) = Len(shifts)
        /\ \A b \in begins :
             \E e \in ends :
                /\ b < e
                /\ \A x \in begins \cup ends : ~(b < x /\ x < e)
        /\ \A e \in ends :
             \E b \in begins :
                /\ b < e
                /\ \A x \in begins \cup ends : ~(b < x /\ x < e)
        /\ \A b \in begins :
             LET j == Cardinality({x \in begins : x <= b})
             IN  lines[b + 1] = <<"UID:", "oncall-" \o ToString(j - 1) \o "-",
                                  shifts[j].user.id, "@myshift-go">>

ICalFormatReturned == fpc = "done" /\ fcall.name = "ICalFormatter.Format"

\* C13: what the iCalendar formatter has written when it returns without
\* error is a well-formed calendar: every line ends with CR LF; the first
\* lines are BEGIN:VCALENDAR, VERSION, PRODID and CALSCALE and the last is
\* END:VCALENDAR; there is one BEGIN:VEVENT ... END:VEVENT block for each
\* shift, in the order of the shifts, none inside another, and none for an
\* empty list.
C13_WellFormedCalendar ==
    (ICalFormatReturned /\ fret.err = "nil") =>
        WellFormedLines(SplitLines(fret.written), fcall.shifts)

\* two shifts were written, the first for a user whose name holds a line
\* break followed by BEGIN:VEVENT
C13_Witness ==
    /\ ICalFormatReturned
    /\ fret.err = "nil"
    /\ Len(fcall.shifts) = 2
    /\ fcall.shifts[1].user.id = "u1"
    /\ fcall.userMap["u1"] = <<"CR", "LF", "BEGIN:VEVENT">>

\* the property lines of the block of shifts[k], which the formatter writes
\* as lines 5 + 11 * (k - 1) to 4 + 11 * k of the calendar
FixedProperties(lines, k, shift) ==
    LET b == 5 + 11 * (k - 1)
    IN  /\ lines[b] = <<"BEGIN:VEVENT">>
        /\ Head(lines[b + 1]) = "UID:"
        /\ lines[b + 2] = <<"DTSTART:" \o FormatICalTime(shift.start)>>
        /\ lines[b + 3] = <<"DTEND:" \o FormatICalTime(shift.end)>>
        /\ Head(lines[b + 4]) = "SUMMARY:On-Call: "
        /\ Head(lines[b + 5]) = "DESCRIPTION:On-call shift for "
        /\ lines[b + 6] = <<"CATEGORIES:ON-CALL">>
        /\ lines[b + 7] = <<"STATUS:CONFIRMED">>
        /\ lines[b + 8] = <<"TRANSP:OPAQUE">>
        /\ Head(lines[b + 9]) = "DTSTAMP:" \o FormatICalTime(fcall.stamp)
        /\ lines[b + 10] = <<"END:VEVENT">>

\* the positions of a text that hold a CR or an LF
Breaks(text) == {i \in 1..Len(text) : text[i] \in {"CR", "LF"}}

\* C27: no text of the API (user name, schedule name, user ID) brings a line
\* break into the calendar: when the formatter returns without error every
\* CR and every LF of the output is half of one of the 5 + 11 * n line ends
\* that the formatter writes for n shifts, and the block of each shift is
\* its eleven lines BEGIN:VEVENT, UID, DTSTART, DTEND, SUMMARY, DESCRIPTION,
\* CATEGORIES, STATUS, TRANSP, DTSTAMP and END:VEVENT.
C27_NoLineBreakFromAPI ==
    (ICalFormatReturned /\ fret.err = "nil") =>
        LET text  == fret.written
            n     == Len(fcall.shifts)
            split == SplitLines(text)
        IN  /\ Cardinality(LineEnds(text)) = 5 + 11 * n
            /\ \A i \in Breaks(text) : i \in LineEnds(text) \/ (i - 1) \in LineEnds(text)
            /\ Cardinality(Breaks(text)) = 2 * (5 + 11 * n)
            /\ \A k \in 1..n : FixedProperties(split.lines, k, fcall.shifts[k])

(***************************************************************************)
(* Claims about the configuration                                          *)
(***************************************************************************)
ConfReturned == confPc = "done"

\* the locations before i hold no file
NoneBefore(i) == \A j \in 1..(i - 1) : files[j].file.kind = "absent"

\* C15: Load and ValidateConfig read no file but the one at the first
\* location of the list where a file exists; when that file cannot be read,
\* is malformed or lacks the token they report an error and do not turn to
\* a later location.
C15_ReadsOnlyFirstExisting ==
    ConfReturned =>
        /\ \A k \in 1..Len(confReads) :
              /\ files[confReads[k]].file.kind # "absent"
              /\ NoneBefore(confReads[k])
        /\ Len(confReads) <= 1
        /\ \A i \in 1..Len(files) :
              (/\ NoneBefore(i)
               /\ \/ files[i].file.kind \in {"unreadable", "malformed"}
                  \/ files[i].file.kind = "yaml" /\ files[i].file.values.pagerduty_token = "")
              => IF confCall = "Load"
                 THEN confRet.err # "nil" /\ ~confRet.loaded
                 ELSE ~confRet.Valid /\ Len(confRet.Errors) > 0 /\ confRet.ConfigPath = i

\* the first file of the list was malformed, a good one came after it, and
\* Load returned the error of the first
C15_Witness ==
    /\ ConfReturned
    /\ confCall = "Load"
    /\ Len(files) = 2
    /\ files[1].path = "clean"
    /\ files[1].file.kind = "malformed"
    /\ files[2].path = "clean"
    /\ files[2].file.kind = "yaml"
    /\ files[2].file.values.pagerduty_token = "tok"
    /\ confReads = <<1>>
    /\ confRet.err = "error parsing config file"

LoadReturned == confPc = "done" /\ confCall = "Load"

\* a file exists at location i, none before it
FoundAt(i) == i \in 1..Len(files) /\ files[i].file.kind # "absent" /\ NoneBefore(i)

\* C16: Load returns either a configuration and no error or an error and
\* no configuration; it returns a configuration only when a file was found,
\* parsed and holds a non-empty pagerduty_token, so the configuration it
\* returns has a non-empty token (schedule_id and my_user may be empty); with
\* no file at any location the error is 'no configuration file found', with
\* a file that is no YAML 'error parsing config file', with an empty or
\* missing token the one naming 'pagerduty_token'.
C16_LoadReturnsValidOrError ==
    LoadReturned =>
        /\ confRet.loaded <=> confRet.err = "nil"
        /\ ~confRet.loaded => confRet.config = NoConfig
        /\ confRet.loaded =>
              /\ confRet.config.pagerduty_token # ""
              /\ \E i \in 1..Len(files) :
                    FoundAt(i) /\ files[i].file.kind = "yaml"
                               /\ confRet.config = files[i].file.values
        /\ (\A i \in 1..Len(files) : files[i].file.kind = "absent") =>
              confRet.err = "no configuration file found"
        /\ \A i \in 1..Len(files) :
              (FoundAt(i) /\ files[i].path = "clean") =>
                 /\ files[i].file.kind = "malformed" =>
                       confRet.err = "error parsing config file"
                 /\ (files[i].file.kind = "yaml"
                        /\ files[i].file.values.pagerduty_token = "") =>
                       confRet.err =
                         "invalid configuration: 'pagerduty_token' is required in configuration"

\* Load returned a configuration with a token and neither optional field
C16_Witness ==
    /\ LoadReturned
    /\ confRet.loaded
    /\ confRet.config = [pagerduty_token |-> "tok", schedule_id |-> "", my_user |-> ""]

ValidateReturned == confPc = "done" /\ confCall = "ValidateConfig"

\* the file that the search finds loads and has a token
FoundLoadedWithToken ==
    \E i \in 1..Len(files) :
        /\ FoundAt(i)
        /\ files[i].path = "clean"
        /\ files[i].file.kind = "yaml"
        /\ files[i].file.values.pagerduty_token # ""

UnsetOptionalFields ==
    {f \in {"schedule_id", "my_user"} :
        \E i \in 1..Len(files) : FoundAt(i) /\ files[i].file.values[f] = ""}

\* C17: ValidateConfig returns no error value; Valid is true exactly when
\* Errors is empty, and exactly when a configuration file was found, loaded
\* and has a pagerduty_token; when Valid is true Warnings has one entry for
\* each optional field that is not set and no other; ConfigLocations lists
\* every location of the search list.
C17_ValidationResultConsistent ==
    ValidateReturned =>
        /\ confRet.err = "nil"
        /\ confRet.Valid <=> confRet.Errors = <<>>
        /\ confRet.Valid <=> FoundLoadedWithToken
        /\ confRet.Valid =>
              /\ Len(confRet.Warnings) = Cardinality(UnsetOptionalFields)
              /\ \A f \in UnsetOptionalFields :
                    Cardinality({k \in 1..Len(confRet.Warnings) :
                        confRet.Warnings[k] = "Optional field '" \o f \o "' is not set"}) = 1
        /\ confRet.ConfigLocations = [k \in 1..Len(files) |-> k]

\* a configuration with a token and no optional field was validated, the
\* second of two locations
C17_Witness ==
    /\ ValidateReturned
    /\ Len(files) = 2
    /\ files[1].file.kind = "absent"
    /\ confRet.Valid
    /\ confRet.ConfigPath = 2
    /\ Len(confRet.Warnings) = 2

(***************************************************************************)
(* Claims about the user that next and upcoming look up                    *)
(***************************************************************************)
\* the words of the line that the shell read last
LastWords == IF lastScan.kind = "line" THEN Fields(TrimSpace(lastScan.line)) ELSE <<>>

\* the email given to the command: the value of --user, or the shell's first
\* argument
GivenEmail ==
    IF replPc = "off" THEN cmd.user
    ELSE IF repl.variant = "old"
    THEN IF Len(LastWords) > 1 THEN LastWords[2] ELSE <<>>
    ELSE IF \E i \in 1..(Len(LastWords) - 1) : LastWords[i] = <<"--user">>
    THEN LastWords[(CHOOSE i \in 1..(Len(LastWords) - 1) : LastWords[i] = <<"--user">>) + 1]
    ELSE <<>>

\* next or upcoming has returned
UserCommandReturned == cmdPc = "done" /\ cmd.name \in {"next", "upcoming"}

\* the emails that the command looked up
LookedUp ==
    {apiCalls[i].email : i \in {j \in 1..Len(apiCalls) : apiCalls[j].m = "FindUserByEmail"}}

\* the arguments were accepted and the configuration was loaded
ArgsAccepted ==
    CASE cmd.variant = "main" -> cmd.parse = "ok" /\ cmd.load = "nil"
      [] cmd.variant = "base" -> cmd.parse = "ok"
      [] OTHER -> TRUE

NeitherAvailable == GivenEmail = <<>> /\ cfg.my_user = <<>>

\* messages that say that the user email is required
EmailRequired ==
    {"user email is required",
     "user email is required (use --user flag or set my_user in config)",
     "exit 1: --user is required (or set my_user in configuration)"}

EmailRequiredUsage ==
    {<<[text |-> "Usage: next [email] - email is required or set my_user"]>>,
     <<[text |-> "Usage: upcoming [email] [days] - email is required or set my_user"]>>}

\* the shell of repl.go has handled a next or upcoming line
OldShellUserLine ==
    /\ replPc \in {"prompt", "calling"}
    /\ repl.variant = "old"
    /\ Len(LastWords) > 0
    /\ LastWords[1] \in {<<"next">>, <<"upcoming">>}

\* the given email comes first, my_user stands in for none, nothing is looked
\* up when there is neither
LooksUpTheRightUser ==
    /\ UserCommandReturned =>
         /\ GivenEmail # <<>> => LookedUp \subseteq {GivenEmail}
         /\ GivenEmail = <<>> => LookedUp \subseteq {cfg.my_user}
         /\ NeitherAvailable => apiCalls = <<>> /\ (ArgsAccepted => cmdErr # "nil")
         /\ (ArgsAccepted /\ cmdErr \in {"nil", "error fetching shifts"}) =>
              LookedUp = {IF GivenEmail # <<>> THEN GivenEmail ELSE cfg.my_user}
    /\ (OldShellUserLine /\ NeitherAvailable) =>
         replPc = "prompt" /\ replOut \in EmailRequiredUsage

\* the failure for want of an email says so
SaysEmailRequired ==
    (UserCommandReturned /\ NeitherAvailable /\ ArgsAccepted) => cmdErr \in EmailRequired

\* C11 as stated: for next and upcoming, from the command line and in the
\* shell, the given email is the one looked up, my_user is looked up only when
\* none is given, and with neither the command fails with a message that the
\* user email is required and calls nothing
C11_GivenEmailFirstAnyConfig == LooksUpTheRightUser /\ SaysEmailRequired

\* C11: the same, the message being that of the missing email when a
\* schedule_id is configured or the command is one that main.go hands the
\* email to; the commands built on BaseCommand ask for the schedule first
C11_GivenEmailFirst ==
    /\ LooksUpTheRightUser
    /\ (UserCommandReturned /\ (cfg.schedule_id # "" \/ cmd.variant = "main")) =>
         SaysEmailRequired

\* the shell looked up "an" though b is configured, and a command line with
\* neither was refused
C11_Witness ==
    \/ /\ UserCommandReturned
       /\ replPc = "calling"
       /\ cfg.my_user = <<"b">>
       /\ GivenEmail = <<"a", "n">>
       /\ LookedUp = {<<"a", "n">>}
    \/ /\ UserCommandReturned
       /\ NeitherAvailable
       /\ cmdErr \in EmailRequired

(***************************************************************************)
(* Claims about the interactive shell                                      *)
(***************************************************************************)
\* the last line read has quit or exit for its first word
QuitLineRead ==
    /\ lastScan.kind = "line"
    /\ Len(LastWords) > 0
    /\ LastWords[1] \in {<<"quit">>, <<"exit">>}

ShellEnded == replPc = "ended"

\* quit, exit and the end of the input end the shell with nil, after
\* Goodbye! for the two words; nothing else ends it with nil, and nothing but
\* a failed read ends it otherwise
EndsOnlyOnQuitOrEndOfInput ==
    /\ QuitLineRead => ShellEnded /\ replRet = "nil" /\ replOut = <<[text |-> "Goodbye!"]>>
    /\ lastScan.kind = "eof" => ShellEnded /\ replRet = "nil"
    /\ (ShellEnded /\ replRet = "nil") => QuitLineRead \/ lastScan.kind = "eof"
    /\ (ShellEnded /\ replRet # "nil") =>
         lastScan.kind = "error" /\ replRet = "error reading input"
    /\ ~ShellEnded => replRet = "none"

\* C18: the shell ends with a nil error exactly when it reads a line whose
\* first word is quit or exit (after printing Goodbye!) or reaches the end of
\* the input; no other line ends it; on a finite input it terminates
C18_EndsOnQuitOrEndOfInput ==
    /\ []EndsOnlyOnQuitOrEndOfInput
    /\ (replPc = "prompt") ~> ShellEnded

\* the shell has ended on a quit line with input left unread
C18_Witness ==
    /\ ShellEnded
    /\ QuitLineRead
    /\ replRet = "nil"
    /\ remaining > 0

\* what the shell prints for a line it cannot carry out
FailureMessages ==
    {"Unknown command", "Invalid days value", "Error parsing start time",
     "Error parsing end time", "Error",
     "Usage: next [email] - email is required or set my_user",
     "Usage: upcoming [email] [days] - email is required or set my_user",
     "Usage: override <user-email> <target-email> <start> <end>"}

\* the handling of the last line ended in a failure message
FailurePrinted ==
    /\ lastScan.kind = "line"
    /\ replOut # <<>>
    /\ replOut[Len(replOut)].text \in FailureMessages

\* a command run by the shell has returned an error
CommandFailedInShell == replPc = "calling" /\ cmdPc = "done" /\ cmdErr # "nil"

\* a line that names no command, or a command that cannot be run as written
BadLineRead ==
    /\ lastScan.kind = "line"
    /\ Len(LastWords) > 0
    /\ \/ LastWords[1] \notin {<<"help">>, <<"?">>, <<"quit">>, <<"exit">>, <<"next">>,
                               <<"plan">>, <<"upcoming">>, <<"override">>}
       \/ LastWords = <<<<"override">>>> /\ repl.variant = "old"
       \/ LastWords = <<<<"plan">>, <<"x">>>> /\ repl.variant = "old"
       \/ LastWords[1] \in {<<"next">>, <<"upcoming">>} /\ repl.variant = "old"
            /\ NeitherAvailable

\* C19 (the step): an unknown command or a usage problem prints its message
\* and leaves the shell at its prompt; the error of a command is printed when
\* the command returns, and the shell is at its prompt again
FailureGoesOn ==
    /\ BadLineRead => replPc = "prompt" /\ FailurePrinted
    /\ FailurePrinted => replPc = "prompt" /\ replRet = "none"
    /\ (replPc = "calling" /\ cmdPc = "start") =>
         replRet = "none" /\ cmd.name \in {"next", "plan", "upcoming", "override"}

\* the error of a command becomes a printed line, and the shell goes on
ErrorIsPrinted ==
    CommandFailedInShell =>
        /\ replPc' = "prompt"
        /\ replRet' = "none"
        /\ replOut' = out \o <<[text |-> "Error", err |-> cmdErr]>>
        /\ remaining' = remaining

\* C19: in the shell an unknown command, a usage or validation problem, or
\* an API error inside next, plan, upcoming or override is printed as a
\* message and the loop goes on with the next line: such a failure never ends
\* the shell and never changes the value that the shell returns in the end
C19_FailuresDoNotEndTheShell ==
    /\ []FailureGoesOn
    /\ [][ErrorIsPrinted]_vars
    /\ [](ShellEnded => replRet = (IF lastScan.kind = "error" THEN "error reading input"
                                    ELSE "nil"))

\* an API error has been printed, and the shell is at its prompt with input
\* left to read
C19_Witness ==
    /\ replPc = "prompt"
    /\ remaining > 0
    /\ \E i \in 1..Len(replOut) :
         replOut[i] = [text |-> "Error", err |-> "error fetching shifts"]

\* the override line in the form that the help of repl.go shows
HelpFormLine ==
    <<"override", " ", "a", "n", " ", "b", " ",
      "\"", "2024-03-20", " ", "09:00", "\"", " ",
      "\"", "2024-03-20", " ", "17:00", "\"">>

HelpFormRead ==
    /\ repl.variant = "old"
    /\ lastScan.kind = "line"
    /\ lastScan.line = HelpFormLine

\* both users were found and the target has a shift in the window
UsersAndShiftFound ==
    /\ Len(apiCalls) >= 3
    /\ apiCalls[1].res.err = "nil"
    /\ apiCalls[2].res.err = "nil"
    /\ apiCalls[3].res.err = "nil"
    /\ Len(apiCalls[3].res.val) > 0

\* C20: in the shell a line of the form shown in its help, override
\* <user-email> <target-email> "YYYY-MM-DD HH:MM" "YYYY-MM-DD HH:MM", creates
\* an override: the line is taken as written, and when both users exist and
\* the target has a shift in the window, CreateOverrides is called with the
\* overrides for the target's shifts and no error is printed
C20_HelpFormCreatesOverride ==
    HelpFormRead =>
        /\ ~FailurePrinted
        /\ (replPc = "calling" /\ cmdPc = "done" /\ UsersAndShiftFound) =>
             /\ Len(apiCalls) = 4
             /\ apiCalls[4].m = "CreateOverrides"
             /\ Len(apiCalls[4].overrides) = Len(apiCalls[3].res.val)
             /\ apiCalls[4].res.err = "nil" => cmdErr = "nil"

\* the shell of repl.go has run upcoming for the line `upcoming 7`
UpcomingDaysOnly ==
    /\ repl.variant = "old"
    /\ lastScan.kind = "line"
    /\ lastScan.line = <<"upcoming", " ", "7">>
    /\ cfg.my_user # <<>>
    /\ replPc = "calling"
    /\ cmdPc = "done"

\* C21: in the shell the email of upcoming is optional, as the help
\* `upcoming [email] [days]` and the example `upcoming 7` say: a line
\* `upcoming <n>` with one numeric argument looks up the configured my_user
\* and asks for the shifts of the next n days
C21_UpcomingDaysOnly ==
    UpcomingDaysOnly =>
        /\ Len(apiCalls) > 0
        /\ apiCalls[1].m = "FindUserByEmail"
        /\ apiCalls[1].email = cfg.my_user
        /\ Len(apiCalls) > 1 =>
             /\ apiCalls[2].m = "GetOnCalls"
             /\ apiCalls[2].params.since = FormatRFC3339(now)
             /\ apiCalls[2].params.until = FormatRFC3339(AddDays(now, 7))

ValidateConfigReturned == confPc = "done" /\ confCall = "ValidateConfig"

\* C28: on the same files ValidateConfig and Load agree: the result of
\* ValidateConfig has Valid = true exactly when Load, called on the files
\* that ValidateConfig saw, returns a configuration and no error; the
\* ConfigPath of the result is the location at which Load finds its file,
\* so Load reads no other file, reads that one whenever it returns a
\* configuration, and finds no file exactly when ConfigPath is empty.
C28_ValidateAgreesWithLoad ==
    /\ LoadReturned =>
          /\ confRet = LoadOutcome(files).ret
          /\ confReads = LoadOutcome(files).reads
    /\ ValidateConfigReturned =>
          LET load == LoadOutcome(files)
          IN  /\ confRet.Valid <=> (load.ret.err = "nil" /\ load.ret.loaded)
              /\ \A k \in 1..Len(load.reads) : load.reads[k] = confRet.ConfigPath
              /\ load.ret.loaded => load.reads = <<confRet.ConfigPath>>
              /\ confRet.ConfigPath = 0 <=> load.ret.err = "no configuration file found"
              /\ confReads = load.reads

\* ValidateConfig found an unreadable file at the first location and a good
\* one at the second: it reports the first as ConfigPath and Valid = false,
\* and Load on the same files fails at the first location as well
C28_Witness ==
    /\ ValidateConfigReturned
    /\ Len(files) = 2
    /\ files[1].path = "clean"
    /\ files[1].file.kind = "unreadable"
    /\ files[2].path = "clean"
    /\ files[2].file.kind = "yaml"
    /\ files[2].file.values.pagerduty_token = "tok"
    /\ confRet.ConfigPath = 1
    /\ ~confRet.Valid
    /\ LoadOutcome(files).ret.err = "error reading config file"

\* the words of the line that a step reads
WordsRead == Fields(TrimSpace(lastScan'.line))

\* a step in which scanner.Scan() delivers a line
LineRead == remaining' = remaining - 1 /\ lastScan'.kind = "line"

\* a step in which the scanner is asked for input
Scanned == lastScan' # lastScan \/ remaining' # remaining

CommandWords == {<<"next">>, <<"plan">>, <<"upcoming">>, <<"override">>}

\* what a handler of repl.go prints when it runs no command
HandlerMessages(word) ==
    CASE word = <<"next">> -> {"Usage: next [email] - email is required or set my_user"}
      [] word = <<"plan">> -> {"Invalid days value"}
      [] word = <<"upcoming">> ->
           {"Usage: upcoming [email] [days] - email is required or set my_user"}
      [] word = <<"override">> ->
           {"Usage: override <user-email> <target-email> <start> <end>",
            "Error parsing start time", "Error parsing end time"}

\* the step runs the handler named word, once: the handler starts the
\* command of that name, or prints its own message and starts none
DispatchedTo(word) ==
    \/ /\ cmd'.name = word[1]
       /\ cmdPc' = "start"
       /\ replPc' = "calling"
       /\ replOut' = <<>>
    \/ /\ cmd'.name = "none"
       /\ cmdPc' = "off"
       /\ replPc' = "prompt"
       /\ Len(replOut') = 1
       /\ replOut'[1].text \in HandlerMessages(word)

NothingDispatched == cmd'.name = "none" /\ cmdPc' = "off"

\* what the shell does with the line that a step reads
LineHandled ==
    IF WordsRead = <<>>
    THEN NothingDispatched /\ replOut' = <<>> /\ replPc' = "prompt"
    ELSE IF WordsRead[1] \in {<<"quit">>, <<"exit">>}
    THEN NothingDispatched /\ replPc' = "ended" /\ replRet' = "nil"
    ELSE IF WordsRead[1] \in CommandWords
    THEN DispatchedTo(WordsRead[1])
    ELSE IF WordsRead[1] \in {<<"help">>, <<"?">>}
    THEN NothingDispatched /\ replPc' = "prompt"
            /\ replOut' = <<[text |-> "Available commands"]>>
    ELSE NothingDispatched /\ replPc' = "prompt"
            /\ replOut' = <<[text |-> "Unknown command", command |-> WordsRead[1]]>>

\* a step of the shell
ShellStep ==
    /\ Scanned => replPc = "prompt"
    /\ LineRead => LineHandled
    /\ cmd' # cmd => (LineRead \/ (replPc = "calling" /\ cmdPc = "done" /\ cmd'.name = "none"))
    /\ (replPc = "calling" /\ replPc' # "calling") => (replPc' = "prompt" /\ cmd'.name = "none")
    /\ replPc # "ended"

\* C30: the shell takes its lines one at a time, in the order in which the
\* scanner delivers them: a line is read only at the prompt, never while the
\* command of an earlier line runs; a line whose first word is next, plan,
\* upcoming or override runs the handler of that name once, and the command
\* that the handler starts has returned before the next line is read; a
\* line of blanks runs nothing and prints nothing; and once a line whose
\* first word is quit or exit has been read, no line is read and nothing
\* runs.
C30_LinesInOrderOnce == [][repl.variant # "none" => ShellStep]_vars

\* the second line of the old shell was a plan line and has started the
\* plan command
C30_Witness ==
    /\ repl.variant = "old"
    /\ replPc = "calling"
    /\ remaining = 0
    /\ lastScan = [kind |-> "line", line |-> <<"plan", " ", "14">>]
    /\ cmd.name = "plan"
    /\ cmd.days = 14

(***************************************************************************)
(* Claims about the configured schedule                                    *)
(***************************************************************************)
\* a command that takes the schedule from the configuration has returned
\* and no schedule_id is configured
ReturnedWithoutSchedule ==
    /\ cmdPc = "done"
    /\ cmd.name \in {"next", "plan", "upcoming", "override"}
    /\ cmd.variant \in {"main", "base"}
    /\ ArgsAccepted
    /\ cfg.schedule_id = ""

ScheduleRequired ==
    {"schedule_id must be configured", "exit 1: schedule_id must be configured"}

\* the arguments pass the tests made before the schedule is asked for: the
\* email of next and upcoming in main.go, the four flags of override
ArgsComplete ==
    /\ (cmd.variant = "main" /\ cmd.name \in {"next", "upcoming"}) => ~NeitherAvailable
    /\ cmd.name = "override" =>
         cmd.user # <<>> /\ cmd.target # <<>> /\ cmd.start # "" /\ cmd.end # ""

\* C23 as stated: without a configured schedule_id next, plan, upcoming and
\* override fail with "schedule_id must be configured" before any API call
C23_ScheduleRequiredAnyArgs ==
    ReturnedWithoutSchedule => apiCalls = <<>> /\ cmdErr \in ScheduleRequired

\* C23: without a configured schedule_id the four commands fail before any
\* API call, with "schedule_id must be configured" when the arguments are
\* complete; main.go asks for the email of next and upcoming first, and
\* override for its four flags
C23_ScheduleRequired ==
    ReturnedWithoutSchedule =>
        /\ apiCalls = <<>>
        /\ cmdErr # "nil"
        /\ ArgsComplete => cmdErr \in ScheduleRequired

\* plan and override were refused for want of a schedule
C23_Witness ==
    /\ ReturnedWithoutSchedule
    /\ cmd.name \in {"plan", "override"}
    /\ cmdErr \in ScheduleRequired
    /\ apiCalls = <<>>

(***************************************************************************)
(* Claims about the page requests of GetOnCalls                            *)
(***************************************************************************)
\* request i asks for 100 entries from offset 100 * (i - 1) on
PagesInSequence ==
    call.name = "GetOnCalls" =>
        /\ \A i \in 1..Len(requests) :
             /\ requests[i].path = "/oncalls"
             /\ requests[i].limit = 100
             /\ requests[i].offset = 100 * (i - 1)
        /\ Len(requests) <= (srvOnCalls \div 100) + 1
        /\ cliPc = "paging" => offset = 100 * Len(requests)

\* a step of GetOnCalls sends one request, the next in the sequence
OneRequestAtATime ==
    call.name = "GetOnCalls" =>
        /\ Len(requests') = Len(requests) + 1
        /\ SubSeq(requests', 1, Len(requests)) = requests

\* C25: GetOnCalls sends its page requests one after another with limit 100
\* and offsets 0, 100, 200, ..., each 100 more than the one before and none
\* repeated, and returns after finitely many requests when the server's
\* result set is finite
C25_PagesInSequenceAndTerminates ==
    /\ []PagesInSequence
    /\ [][OneRequestAtATime]_vars
    /\ (call.name = "GetOnCalls") ~> (cliPc = "done")

\* GetOnCalls has returned after three requests
C25_Witness ==
    /\ call.name = "GetOnCalls"
    /\ cliPc = "done"
    /\ Len(requests) = 3
    /\ requests[3].offset = 200
    /\ ret.err = "nil"

(***************************************************************************)
(* Claims about the plan command                                           *)
(***************************************************************************)
\* the plan command has returned after a shift query that succeeded
PlanListed ==
    /\ cmdPc = "done"
    /\ cmd.name = "plan"
    /\ Len(apiCalls) > 0
    /\ apiCalls[1].res.err = "nil"

\* the shifts that the command lists
PlanShifts ==
    IF cmd.variant = "base" THEN DeduplicateOnCalls(apiCalls[1].res.val)
    ELSE apiCalls[1].res.val

\* the GetUser calls of the run
GetUserCalls == {j \in 1..Len(apiCalls) : apiCalls[j].m = "GetUser"}

\* the name that the plan shows for a shift: the user's, or the one in the
\* shift when GetUser failed
DisplayName(shift) ==
    LET c == apiCalls[CHOOSE j \in GetUserCalls : apiCalls[j].id = shift.user.id]
    IN  IF c.res.err = "nil" THEN c.res.val.name ELSE shift.user.name

\* C24: building the map from user ID to name, the plan command calls GetUser
\* at most once for each distinct user ID of the shifts; every such ID gets a
\* name, the one in the shift itself when GetUser fails; a failed lookup
\* never makes the command fail
C24_OneLookupPerUser ==
    PlanListed =>
        /\ \A j, k \in GetUserCalls : apiCalls[j].id = apiCalls[k].id => j = k
        /\ {apiCalls[j].id : j \in GetUserCalls}
               = {PlanShifts[i].user.id : i \in 1..Len(PlanShifts)}
        /\ GetUserCalls = 2..Len(apiCalls)
        /\ cmdErr \in {"nil", "unsupported format"}
        /\ cmdErr = "unsupported format" => GetFormatter(cmd.format).err # "nil"
        /\ (cmdErr = "nil" /\ PlanShifts # <<>>) =>
             /\ Len(out) = Len(PlanShifts) + 1
             /\ \A i \in 1..Len(PlanShifts) :
                  /\ out[i + 1].name = DisplayName(PlanShifts[i])
                  /\ out[i + 1].name # ""

\* two shifts of one user whose lookup failed, and a user who was found
C24_Witness ==
    /\ PlanListed
    /\ Len(PlanShifts) = 3
    /\ Cardinality(GetUserCalls) = 2
    /\ \E j, k \in GetUserCalls : apiCalls[j].res.err # "nil" /\ apiCalls[k].res.err = "nil"
    /\ cmdErr = "nil"

(***************************************************************************)
(* Claims about the client                                                 *)
(***************************************************************************)
\* the whole result set of the server, in offset order
WholeResultSet == [i \in 1..srvOnCalls |-> i]

GetOnCallsReturned ==
    call.name = "GetOnCalls" /\ cliPc = "done" /\ ret.err = "nil"

FindUserReturned == call.name = "FindUserByEmail" /\ cliPc = "done"

\* the users of the server whose email is the requested one, case ignored
UsersWithEmail(email) == {u \in srvUsers : EqualFold(u.email, email)}

\* C4: when the request got its answer, FindUserByEmail returns a user of
\* the server whose email is the requested one ignoring case whenever there
\* is one, says 'not found' only when there is none, and never returns a
\* user with another email.
C4_FindsTheUser ==
    (FindUserReturned /\ ret.err \in {"nil", "user not found"}) =>
        /\ UsersWithEmail(call.arg) # {} => ret.err = "nil"
        /\ ret.err = "nil" => ret.val \in UsersWithEmail(call.arg)

CreateOverridesReturned == call.name = "CreateOverrides" /\ cliPc = "done"

\* C5: after CreateOverrides either the whole list is on the schedule and
\* nil was returned, or nothing is on the schedule and an error was returned.
C5_AllOrNothing ==
    CreateOverridesReturned =>
        \/ ret.err = "nil" /\ srvOverrides = call.arg
        \/ ret.err # "nil" /\ srvOverrides = <<>>

\* C6: a method during which a single HTTP exchange failed (transport error
\* or non-2xx answer) does not return an error for that: the request is
\* tried again.
C6_OneFailureIsRetried ==
    (cliPc = "done" /\ failures = 1) => ret.err = "nil"

DedupInit ==
    /\ onCalls \in SeqsUpTo(DedupShifts, MaxShifts)
    /\ uniqueShifts = <<>>
    /\ dedupPc = "start"
    /\ ClientIdle
    /\ CmdIdle
    /\ OtherIdle

DedupCall ==
    /\ dedupPc = "start"
    /\ uniqueShifts' = DeduplicateOnCalls(onCalls)
    /\ dedupPc' = "done"
    /\ UNCHANGED <<onCalls, clientVars, cmdVars, otherVars>>

DedupNext == DedupCall

SpecDedup == DedupInit /\ [][DedupNext]_vars

(***************************************************************************)
(* Claims about DeduplicateOnCalls                                         *)
(***************************************************************************)
\* C2: the result holds no two entries with the same user ID, schedule ID,
\* start and end, holds every combination of the input exactly once, and is
\* empty for an empty input.
C2_OneEntryPerCombination ==
    dedupPc = "done" =>
        /\ \A i, j \in 1..Len(uniqueShifts) :
                i # j => ~SameShift(uniqueShifts[i], uniqueShifts[j])
        /\ \A k \in 1..Len(onCalls) :
                Cardinality({i \in 1..Len(uniqueShifts) :
                                SameShift(uniqueShifts[i], onCalls[k])}) = 1
        /\ (onCalls = <<>> => uniqueShifts = <<>>)

\* C3: an entry is dropped only when an earlier entry of the input has the
\* same user ID, schedule ID, start and end: an entry that differs from
\* every earlier one in one of the four is in the result.
C3_DropsOnlyDuplicates ==
    dedupPc = "done" =>
        \A k \in 1..Len(onCalls) :
            (\A j \in 1..(k - 1) : ~SameShift(onCalls[j], onCalls[k])) =>
                \E i \in 1..Len(uniqueShifts) : uniqueShifts[i] = onCalls[k]

\* the positions of a list at which a shift occurs for the first time: no
\* earlier entry has the same user ID, schedule ID, start and end
FirstOccurrences(in) ==
    {k \in 1..Len(in) : \A j \in 1..(k - 1) : ~SameShift(in[j], in[k])}

\* the entries of a list at the positions idx, in the order of the list
Kept(in, idx) ==
    [i \in 1..Cardinality(idx) |->
        in[CHOOSE k \in idx : Cardinality({x \in idx : x < k}) = i - 1]]

IsSubsequence(a, b) == \E idx \in SUBSET (1..Len(b)) : a = Kept(b, idx)

\* the result is a subsequence of the input, and deduplicating the result
\* again gives the result
SubsequenceAndIdempotent ==
    dedupPc = "done" =>
        /\ IsSubsequence(uniqueShifts, onCalls)
        /\ DeduplicateOnCalls(uniqueShifts) = uniqueShifts

\* C29: the result of DeduplicateOnCalls is the input restricted to the
\* first occurrence of each shift, in the order of the input (so it is a
\* subsequence of the input), and DeduplicateOnCalls applied to the result
\* gives the result again.
C29_KeepsFirstOccurrences ==
    dedupPc = "done" =>
        /\ uniqueShifts = Kept(onCalls, FirstOccurrences(onCalls))
        /\ IsSubsequence(uniqueShifts, onCalls)
        /\ DeduplicateOnCalls(uniqueShifts) = uniqueShifts

====
